---------------------------- MODULE Spec2Model ----------------------------
(***************************************************************************)
(* Thermal control of Firmware/temperature.cpp: the latched error word,    *)
(* the temperature-manager tick with its detectors, the foreground         *)
(* manage_heater / handle_temp_error glue, PID_autotune and the observer   *)
(* calibration (temp_model_cal::autotune).                                 *)
(*                                                                         *)
(* Execution contexts.  The manager tick (ISR(TIMER5_COMPA_vect)) preempts *)
(* the foreground between any two foreground statements unless a           *)
(* TempMgrGuard is alive, and runs to completion before the foreground     *)
(* continues: it is one action.  The foreground is one sequential program, *)
(* cut into steps at every access to data shared with the tick.            *)
(*                                                                         *)
(* Values.  Temperatures are whole degrees Celsius; raw counts are the     *)
(* oversampled ADC sums.  The configuration of the build (tables, limits)  *)
(* is in headers outside temperature.cpp; the values used here are named   *)
(* below.                                                                  *)
(***************************************************************************)
EXTENDS Integers, Sequences, FiniteSets, TLC

\* ------------------------------------------------------------------ build
\* One hotend (ARRAY_BY_EXTRUDERS), thermistors of NTC type
\* (HEATER_0_RAW_LO_TEMP > HEATER_0_RAW_HI_TEMP: raw falls as it gets hotter).
EXTRUDERS == 1
OVERSAMPLENR == 16
PID_MAX == 255
MAX_BED_POWER == 255
TEMP_HYSTERESIS == 5
HEATER_0_MINTEMP == 10
HEATER_0_MAXTEMP == 305
BED_MINTEMP == 10
BED_MAXTEMP == 125
AMBIENT_MINTEMP == -30
AMBIENT_MAXTEMP == 80
HEATER_0_RAW_HI_TEMP == 0
HEATER_0_RAW_LO_TEMP == 144
MINTEMP_MINAMBIENT_RAW == 5
TEMP_RUNAWAY_EXTRUDER_HYSTERESIS == 15
TEMP_RUNAWAY_BED_HYSTERESIS == 5
\* Seconds out of band that the runaway check tolerates (small stand-ins for
\* the variants' values).
TEMP_RUNAWAY_EXTRUDER_TIMEOUT == 5
TEMP_RUNAWAY_BED_TIMEOUT == 6
SOFT_PWM_SCALE == 0
PWM_PERIOD == 128

\* TempErrorSource
SrcHotend == 0
SrcBed == 1
SrcAmbient == 2

\* TempErrorType, in order of decreasing priority
TypeMax == 0
TypeMin == 1
TypePreheat == 2
TypeRunaway == 3
TypeModel == 4

\* TempRunawayStates
TempRunaway_INACTIVE == 0
TempRunaway_PREHEAT == 1
TempRunaway_ACTIVE == 2

\* (raw, celsius) tables, raw ascending
HEATER_0_TEMPTABLE ==
    << <<16, 320>>, <<32, 300>>, <<64, 200>>, <<96, 25>>, <<112, 10>>, <<128, 0>> >>
BEDTEMPTABLE ==
    << <<16, 150>>, <<32, 125>>, <<64, 60>>, <<96, 25>>, <<112, 10>>, <<128, 0>> >>
AMBIENTTEMPTABLE ==
    << <<16, 100>>, <<32, 80>>, <<64, 25>>, <<96, 0>>, <<112, -30>>, <<128, -40>> >>

\* ------------------------------------------------------------- conversion
\* First index i >= from with table[i][0] > raw, or Len(table)+1 (the loop's
\* i == len exit, 1-based here).
RECURSIVE FirstAbove(_, _, _)
FirstAbove(tt, raw, i) ==
    IF i > Len(tt) THEN i
    ELSE IF tt[i][1] > raw THEN i
    ELSE FirstAbove(tt, raw, i + 1)

\* The table walk shared by analog2temp, analog2tempBed, analog2tempAmbient:
\* linear interpolation on the segment below the first key above raw, the
\* last entry's temperature when no key is above raw.  The quotient is
\* rounded down to whole degrees.
TableLookup_no_overflow(tt, raw) ==
    LET i == FirstAbove(tt, raw, 2)
    IN IF i > Len(tt) THEN 0
       ELSE tt[i-1][2] +
            ((raw - tt[i-1][1]) * (tt[i][2] - tt[i-1][2])) \div (tt[i][1] - tt[i-1][1])

TableLookup(tt, raw) ==
    LET i == FirstAbove(tt, raw, 2)
    IN IF i > Len(tt) THEN tt[Len(tt)][2]
       ELSE tt[i-1][2] +
            ((raw - tt[i-1][1]) * (tt[i][2] - tt[i-1][2])) \div (tt[i][1] - tt[i-1][1])

analog2temp(raw) == TableLookup(HEATER_0_TEMPTABLE, raw)
analog2tempBed(raw) == TableLookup(BEDTEMPTABLE, raw)
analog2tempAmbient(raw) == TableLookup(AMBIENTTEMPTABLE, raw)

\* soft_pwm_init: walk the raw limit from the extreme value until the
\* converted temperature is inside the limit.
RECURSIVE MinRawFrom(_, _, _)
MinRawFrom(tt, raw, mintemp) ==
    IF TableLookup(tt, raw) < mintemp THEN MinRawFrom(tt, raw - OVERSAMPLENR, mintemp)
    ELSE raw
RECURSIVE MaxRawFrom(_, _, _)
MaxRawFrom(tt, raw, maxtemp) ==
    IF TableLookup(tt, raw) > maxtemp THEN MaxRawFrom(tt, raw + OVERSAMPLENR, maxtemp)
    ELSE raw

minttemp_raw == MinRawFrom(HEATER_0_TEMPTABLE, HEATER_0_RAW_LO_TEMP, HEATER_0_MINTEMP)
maxttemp_raw == MaxRawFrom(HEATER_0_TEMPTABLE, HEATER_0_RAW_HI_TEMP, HEATER_0_MAXTEMP)
bed_minttemp_raw == MinRawFrom(BEDTEMPTABLE, HEATER_0_RAW_LO_TEMP, BED_MINTEMP)
bed_maxttemp_raw == MaxRawFrom(BEDTEMPTABLE, HEATER_0_RAW_HI_TEMP, BED_MAXTEMP)
ambient_minttemp_raw == MinRawFrom(AMBIENTTEMPTABLE, HEATER_0_RAW_LO_TEMP, AMBIENT_MINTEMP)
ambient_maxttemp_raw == MaxRawFrom(AMBIENTTEMPTABLE, HEATER_0_RAW_HI_TEMP, AMBIENT_MAXTEMP)
minttemp == HEATER_0_MINTEMP
maxttemp == HEATER_0_MAXTEMP


\* ------------------------------------------------------------------ bounds
\* Target temperatures the foreground requests (0 switches a heater off).
HotendTargets == {0, 210}
BedTargets == {0, 60}
FanSpeeds == {0, 255}
\* Gains (cs.Kp, cs.Ki, cs.Kd and the bed's, already scaled by PID_dT) in whole
\* numbers, and PID_K1 in hundredths.
StockGains == [Kp |-> 16, Ki |-> 1, Kd |-> 0, bedKp |-> 126, bedKi |-> 1, bedKd |-> 0]
StiffGains == [Kp |-> 16, Ki |-> 2, Kd |-> 1, bedKp |-> 126, bedKi |-> 4, bedKd |-> 0]
PidGains == {StockGains, StiffGains}
PID_K1_PERCENT == 95
PID_INTEGRAL_DRIVE_MAX == PID_MAX
\* Hotend and bed temperatures of samples inside all limits.
PidSamples == {<<25, 25>>, <<215, 100>>}
\* Lookup tables of three entries with strictly increasing raw keys and
\* monotonic temperatures, and the raw counts looked up in them.
MaxKey == 6
LutTemps == {0, 1, 5, 9}
LutEntries == (0..MaxKey) \X LutTemps
LutTables ==
    { <<a, b, c>> : a \in LutEntries, b \in LutEntries, c \in LutEntries }
LutRaws == (-1)..(MaxKey + 2)
\* Duties the regulator leaves in soft_pwm[0].
PwmDuties == {0, 1, 64, 127}
\* Words an out-of-bounds read of target_temperature[] can yield.
OutOfBoundsReads == {0, 210}
\* One completed ADC cycle: <<hotend raw, bed raw, ambient raw>>.
AdcSamples ==
    { <<96, 96, 64>>,      \* everything at room temperature
      <<32, 96, 64>>,      \* hotend exactly at its max-raw threshold
      <<96, 32, 64>>,      \* bed exactly at its max-raw threshold
      <<112, 96, 64>> }    \* hotend at its min-raw threshold

\* PID_autotune's arguments and the half-periods its relay can measure (ms).
AutotuneTemp == 190
AutotuneCycles == 1
\* Time of PID_autotune in units of five minutes; ages are followed up to MaxAge.
ClockUnit == 300000
AutotuneTimeout == (10 * 60 * 1000 * 2) \div ClockUnit
MaxAge == 6
Durations == {6000, 12000}
safety_check_cycles_count == 10
\* Successive handler runs on an asserted anomaly that are counted.
MaxRuns == 2
MaxShown == 13
MaxRunsOnCycle == 2
MaxIterationsCounted == 260
\* The serial lines of a run whose echo is not followed.
NoSerial == [echo |-> FALSE, bias |-> 0, classic |-> 0, finished |-> FALSE]

\* The calibration's arguments and configuration.
CalTemp == 200
REC_BUFFER_SIZE == 2
TEMP_MODEL_CAL_Tl == 50
TEMP_MODEL_R_SIZE == 16
TEMP_MODEL_CAL_R_STEP == 4
TEMP_MODEL_Ta_corr == -7
\* The observer's lag buffer has TEMP_MODEL_LAG_SIZE entries.
TEMP_MODEL_LAG_SIZE == 3
\* Floats of the observer's parameters: NAN and a few numbers.
NaN == 1000
Floats == {NaN, -1, 0, 1, 2}
TEMP_MODEL_P == 2
TEMP_MODEL_W == 1
TEMP_MODEL_E == 2

\* The environment of the error-state specification: the ADC samples above,
\* the runaway check due at every tick, the observer's error verdict free.
Env ==
    [samples |-> AdcSamples, due |-> {TRUE}, model |-> BOOLEAN \X {FALSE},
     pid |-> {PID_MAX}, counters |-> FALSE, lag |-> FALSE, runaway |-> FALSE]

\* ------------------------------------------------------------------- state
VARIABLES
    \* ADC and temperatures
    adc_values_ready,
    current_temperature_raw, current_temperature_bed_raw, current_temperature_raw_ambient,
    current_temperature_isr, current_temperature_bed_isr, current_temperature_ambient_isr,
    current_temperature, current_temperature_bed, current_temperature_ambient,
    temp_meas_ready,
    \* targets and duty registers
    target_temperature, target_temperature_bed,
    target_temperature_isr, target_temperature_bed_isr,
    soft_pwm, soft_pwm_bed, pid_reset, pid_tuning_finished,
    \* error word and recovery values
    temp_error_state,
    saved_bed_temperature, saved_extruder_temperature, saved_fan_speed, fanSpeed,
    \* detectors
    temp_runaway_status, temp_runaway_target,
    \* __preheat_start, __preheat_counter and __preheat_errors, followed where
    \* the environment says so, and the history of calls above the target
    preheat_start, preheat_counter, preheat_errors, overshoot_checks,
    \* followed where the environment says so
    temp_runaway_error_counter,
    \* history of the last tick: its limit guard examined raw counts of another
    \* ADC cycle than the one it converted
    raw_cycle_torn,
    \* temp_model::data: the observer's parameters, lag buffer and flag
    data,
    bCheckingOnHeater, bCheckingOnBed, oTimer4minTempHeater, oTimer4minTempBed,
    temp_model_enabled, warning_state, beeper, first, asserted_runs,
    \* the MINTEMP alert automata, the alert last sent to the display, and
    \* (observation only) how many automaton steps in a row have sent it
    alert_automaton_hotend, alert_automaton_bed, last_alert_sent_to_lcd, shown_steps,
    \* manager interrupt enable bit (TIMSK5.OCIE5A)
    temp_mgr_interrupt,
    \* foreground program counter and the handler's private copies
    pc, h_type, h_source, h_assert,
    \* observation only: first raise of each type since the error word was
    \* last clear, and whether the last tick called set_temp_error
    raised_since_clear, tick_raised,
    \* observation only: runs of the tick's body since the last ADC cycle completed
    runs_on_cycle,
    \* PID_autotune: pid_cycle and the routine's locals
    pid_cycle, pa_heating, pa_bias, pa_d, pa_input, pa_t_high,
    pa_safety_check_cycles, pa_temp_ambient,
    \* _millis() - t1, _millis() - t2 and the time since PID_autotune began, in ClockUnit
    pa_t1_age, pa_t2_age, pa_run_age,
    \* the ncycles of the running PID_autotune and the lines it has echoed
    pid_number_of_cycles, pa_serial,
    \* where manage_heater returns to, and temp_model_autotune: the print fan
    \* duty and the calibration's locals
    mh_return, fanSpeedSoftPwm, cal_i, cal_ri, cal_phase, cal_pos, cal_samples,
    cal_old_speed, cal_was_enabled, cal_guard, cal_err,
    \* the hotend heater pin, and soft_pwm_core's statics pwm_count, soft_pwm_0
    heater_0_pin, pwm_count, soft_pwm_0,
    \* observation only: whether soft_pwm_0 is a copy of the register taken
    \* after its last write; length and high ticks of the window under watch,
    \* and whether the copy was such a one after the window's first tick
    pwm_settled, win_ticks, win_highs, win_settled,
    \* the soft-PWM interrupt's position inside soft_pwm_core, and (observation
    \* only) disable_heater has run and soft_pwm[0] was not stored since
    pwm_pc, heaters_off,
    \* the regulators' statics (followed where the regulators' arithmetic is
    \* run: temp_mgr_isr_quiet, disable_heater_call), and the gains in use
    iState_sum, dTerm, dState_last, temp_iState_bed, dTerm_bed, temp_dState_bed, cs,
    \* a lookup table, two raw counts and the temperatures analog2temp gave for them
    lut_table, lut_raw, lut_celsius,
    \* the locals of one call of temp_model_cal::estimate, and autotune's
    \* interpolation loop with the R[] it works on
    est, itp

adc_vars == <<adc_values_ready, current_temperature_raw, current_temperature_bed_raw,
              current_temperature_raw_ambient>>
isr_temp_vars == <<current_temperature_isr, current_temperature_bed_isr,
                   current_temperature_ambient_isr>>
fg_temp_vars == <<current_temperature, current_temperature_bed, current_temperature_ambient>>
target_vars == <<target_temperature, target_temperature_bed>>
isr_target_vars == <<target_temperature_isr, target_temperature_bed_isr>>
duty_vars == <<soft_pwm, soft_pwm_bed, pid_reset>>
saved_vars == <<saved_bed_temperature, saved_extruder_temperature, saved_fan_speed>>
detector_vars == <<temp_runaway_status, temp_runaway_target, preheat_start, preheat_counter,
                   preheat_errors, overshoot_checks, temp_runaway_error_counter, raw_cycle_torn, data,
                   bCheckingOnHeater,
                   bCheckingOnBed, oTimer4minTempHeater, oTimer4minTempBed>>
\* The detectors' variables other than temp_model::data.
detector_rest == <<temp_runaway_status, temp_runaway_target, preheat_start, preheat_counter,
                   preheat_errors, overshoot_checks, temp_runaway_error_counter, raw_cycle_torn,
                   bCheckingOnHeater,
                   bCheckingOnBed, oTimer4minTempHeater, oTimer4minTempBed>>
handler_vars == <<h_type, h_source, h_assert>>
alert_vars == <<alert_automaton_hotend, alert_automaton_bed, last_alert_sent_to_lcd,
                shown_steps>>
beeper_vars == <<beeper, first, asserted_runs, alert_vars>>
obs_vars == <<raised_since_clear, tick_raised, runs_on_cycle>>
tune_vars == <<pid_cycle, pa_heating, pa_bias, pa_d, pa_input, pa_t_high,
               pa_safety_check_cycles, pa_temp_ambient, pa_t1_age, pa_t2_age, pa_run_age,
               pid_number_of_cycles, pa_serial>>
pa_clock == <<pa_t1_age, pa_t2_age, pa_run_age>>
cal_vars == <<fanSpeedSoftPwm, cal_i, cal_ri, cal_phase, cal_pos, cal_samples,
              cal_old_speed, cal_was_enabled, cal_guard, cal_err>>
routine_vars == <<tune_vars, cal_vars>>
pwm_vars == <<pwm_count, soft_pwm_0, pwm_settled, win_ticks, win_highs, win_settled,
              pwm_pc, heaters_off>>
pid_state_vars == <<iState_sum, dTerm, dState_last, temp_iState_bed, dTerm_bed, temp_dState_bed>>
pid_vars == <<pid_state_vars, cs>>
lut_vars == <<lut_table, lut_raw, lut_celsius>>
cal_fn_vars == <<est, itp>>
aux_vars == <<pwm_vars, pid_vars, lut_vars, cal_fn_vars>>
\* What neither the soft-PWM interrupt nor a lookup touches.
pwm_frame == <<adc_vars, isr_temp_vars, fg_temp_vars, temp_meas_ready, target_vars,
               isr_target_vars, soft_pwm_bed, pid_reset, pid_tuning_finished,
               temp_error_state, saved_vars, fanSpeed, detector_vars, temp_model_enabled,
               warning_state, beeper_vars, temp_mgr_interrupt, pc, handler_vars, obs_vars,
               routine_vars, mh_return, pid_vars>>

vars == <<adc_vars, isr_temp_vars, fg_temp_vars, temp_meas_ready, target_vars,
          isr_target_vars, duty_vars, pid_tuning_finished, temp_error_state, saved_vars,
          fanSpeed, detector_vars, temp_model_enabled, warning_state, beeper_vars,
          temp_mgr_interrupt, pc, handler_vars, obs_vars, routine_vars, mh_return,
          heater_0_pin, aux_vars>>

\* What the settings of the observer leave alone.
settings_frame == <<adc_vars, isr_temp_vars, fg_temp_vars, temp_meas_ready, target_vars,
                    isr_target_vars, duty_vars, pid_tuning_finished, temp_error_state,
                    saved_vars, fanSpeed, detector_rest, warning_state, beeper_vars,
                    temp_mgr_interrupt, pc, handler_vars, obs_vars, routine_vars, mh_return,
                    heater_0_pin, aux_vars>>

\* temp_error_state.v == 0
NoError == [error |-> FALSE, assert |-> FALSE, source |-> 0, index |-> 0, type |-> 0]
NotRaised == <<>>

\* The data the manager tick reads and writes, as one record.
\* The ADC cycle that the tick started completes while the tick runs with
\* interrupts enabled: adc_callback overwrites the raw counts with `sample`
\* after the tick converted `at` channels (hotend, bed, ambient in this
\* order).  at = 0: the cycle completes after the tick.
NoAdcLate == [at |-> 0, sample |-> <<0, 0, 0>>]
AdcLate == 1..3

IsrState ==
    [ current_temperature_raw |-> current_temperature_raw,
      current_temperature_bed_raw |-> current_temperature_bed_raw,
      current_temperature_raw_ambient |-> current_temperature_raw_ambient,
      current_temperature_isr |-> current_temperature_isr,
      current_temperature_bed_isr |-> current_temperature_bed_isr,
      current_temperature_ambient_isr |-> current_temperature_ambient_isr,
      temp_meas_ready |-> temp_meas_ready,
      target_temperature |-> target_temperature,
      target_temperature_bed |-> target_temperature_bed,
      target_temperature_isr |-> target_temperature_isr,
      target_temperature_bed_isr |-> target_temperature_bed_isr,
      soft_pwm |-> soft_pwm, soft_pwm_bed |-> soft_pwm_bed, pid_reset |-> pid_reset,
      pid_tuning_finished |-> pid_tuning_finished,
      temp_error_state |-> temp_error_state,
      saved_bed_temperature |-> saved_bed_temperature,
      saved_extruder_temperature |-> saved_extruder_temperature,
      saved_fan_speed |-> saved_fan_speed, fanSpeed |-> fanSpeed,
      temp_runaway_status |-> temp_runaway_status,
      temp_runaway_target |-> temp_runaway_target,
      preheat_start |-> preheat_start, preheat_counter |-> preheat_counter,
      preheat_errors |-> preheat_errors,
      overshoot_checks |-> overshoot_checks,
      temp_runaway_error_counter |-> temp_runaway_error_counter,
      raw_cycle_torn |-> raw_cycle_torn, adc_late |-> NoAdcLate,
      data |-> data, follow_lag |-> FALSE, runaway |-> FALSE,
      bCheckingOnHeater |-> bCheckingOnHeater, bCheckingOnBed |-> bCheckingOnBed,
      oTimer4minTempHeater |-> oTimer4minTempHeater,
      oTimer4minTempBed |-> oTimer4minTempBed,
      temp_model_enabled |-> temp_model_enabled, warning_state |-> warning_state,
      raised_since_clear |-> raised_since_clear, tick_raised |-> tick_raised,
      runs_on_cycle |-> runs_on_cycle,
      heater_0_pin |-> heater_0_pin ]

\* ------------------------------------------------------------------ heaters
setIsrTargetTemperatures(s) ==
    [s EXCEPT !.target_temperature_isr = s.target_temperature,
              !.target_temperature_bed_isr = s.target_temperature_bed]

\* pid_heater(0, current, target) with the regulator's clamped output given.
pid_heater(s, current, target, pid_output) ==
    [s EXCEPT !.pid_reset = (target = 0),
              !.soft_pwm = IF (current < maxttemp) /\ (target # 0)
                           THEN pid_output \div 2 ELSE 0]

\* pid_bed(current, target) (PIDTEMPBED) with the regulator's clamped output given.
pid_bed(s, current, target, pid_output) ==
    [s EXCEPT !.soft_pwm_bed = IF target = 0 THEN 0
                               ELSE IF current < BED_MAXTEMP THEN pid_output \div 2
                               ELSE 0]

temp_mgr_pid(s, po, pob) ==
    pid_bed(pid_heater(s, s.current_temperature_isr, s.target_temperature_isr, po),
            s.current_temperature_bed_isr, s.target_temperature_bed_isr, pob)

\* disable_heater: targets to 0, pushed down to the tick's copies, the
\* regulators run on them (their output is 0 for a target of 0 whatever the
\* regulator state), and the heater pin written low.
disable_heater(s) ==
    LET s1 == [s EXCEPT !.target_temperature = 0, !.target_temperature_bed = 0]
    IN [temp_mgr_pid(setIsrTargetTemperatures(s1), 0, 0) EXCEPT !.heater_0_pin = FALSE]

\* ------------------------------------------------------------- error word
\* set_temp_error, first block: the targets and fan speed kept for recovery;
\* oob is what target_temperature[index] reads when index is outside the array.
SaveRecovery(s, index, oob) ==
    IF ~s.temp_error_state.error
    THEN [s EXCEPT !.saved_bed_temperature = s.target_temperature_bed,
                   !.saved_extruder_temperature =
                       IF index < EXTRUDERS THEN s.target_temperature ELSE oob,
                   !.saved_fan_speed = s.fanSpeed]
    ELSE s

\* A variant of the error record in which the latest raise wins.
RecordErrorLatest(e, source, index, type) ==
    [e EXCEPT !.source = source, !.index = index, !.type = type,
              !.error = TRUE, !.assert = TRUE]

\* set_temp_error, last block: the error word after the raise.
RecordError(e, source, index, type) ==
    LET e1 == IF ~e.error \/ type < e.type
              THEN [e EXCEPT !.source = source, !.index = index, !.type = type]
              ELSE e
    IN [e1 EXCEPT !.error = TRUE, !.assert = TRUE]

\* set_temp_error(source, index, type)
set_temp_error(s, source, index, type, oob) ==
    LET s2 == disable_heater(SaveRecovery(s, index, oob))
    IN [s2 EXCEPT !.temp_error_state =
                      RecordError(s.temp_error_state, source, index, type),
                  \* observation
                  !.raised_since_clear =
                      IF s.raised_since_clear[type] = NotRaised
                      THEN [s.raised_since_clear EXCEPT ![type] = <<source, index>>]
                      ELSE s.raised_since_clear,
                  !.tick_raised = TRUE]

\* ---------------------------------------------------------------- detectors
\* A variant of check_max_temp_raw whose comparisons are strict.
check_max_temp_raw_strict(s) ==
    LET s1 == IF s.current_temperature_raw < maxttemp_raw
              THEN set_temp_error(s, SrcHotend, 0, TypeMax, 0) ELSE s
        s2 == IF s1.current_temperature_bed_raw < bed_maxttemp_raw
              THEN set_temp_error(s1, SrcBed, 0, TypeMax, 0) ELSE s1
    IN IF s2.current_temperature_raw_ambient < ambient_maxttemp_raw
       THEN set_temp_error(s2, SrcAmbient, 0, TypeMax, 0) ELSE s2

\* check_max_temp_raw (NTC: at or below the max-raw threshold is too hot)
check_max_temp_raw(s) ==
    LET s1 == IF s.current_temperature_raw <= maxttemp_raw
              THEN set_temp_error(s, SrcHotend, 0, TypeMax, 0) ELSE s
        s2 == IF s1.current_temperature_bed_raw <= bed_maxttemp_raw
              THEN set_temp_error(s1, SrcBed, 0, TypeMax, 0) ELSE s1
    IN IF s2.current_temperature_raw_ambient <= ambient_maxttemp_raw
       THEN set_temp_error(s2, SrcAmbient, 0, TypeMax, 0) ELSE s2

check_min_temp_heater0(s) ==
    IF s.current_temperature_raw >= minttemp_raw
    THEN set_temp_error(s, SrcHotend, 0, TypeMin, 0) ELSE s

check_min_temp_bed(s) ==
    IF s.current_temperature_bed_raw >= bed_minttemp_raw
    THEN set_temp_error(s, SrcBed, 0, TypeMin, 0) ELSE s

check_min_temp_ambient(s) ==
    IF s.current_temperature_raw_ambient >= ambient_minttemp_raw
    THEN set_temp_error(s, SrcAmbient, 0, TypeMin, 0) ELSE s

\* ShortTimer::expired: false when not running; when the period has elapsed
\* (elapsed: an input here) the timer stops and the answer is true.
TimerExpired(running, elapsed) == running /\ elapsed
TimerAfterExpired(running, elapsed) == running /\ ~elapsed

\* check_min_temp_heater0 without the delayed logic in front of it.
min_temp_nozzle_undelayed(s, elapsed) == check_min_temp_heater0(s)

\* The nozzle part of check_min_temp_raw's delayed logic.
min_temp_nozzle(s, elapsed) ==
    IF s.target_temperature_isr > minttemp
    THEN LET chk == s.bCheckingOnHeater
                    \/ (s.current_temperature_isr > minttemp + TEMP_HYSTERESIS)
             exp == TimerExpired(s.oTimer4minTempHeater, elapsed)
             run == TimerAfterExpired(s.oTimer4minTempHeater, elapsed)
             s1 == [s EXCEPT !.bCheckingOnHeater = chk, !.oTimer4minTempHeater = run]
         IN IF exp \/ ~run \/ chk
            THEN check_min_temp_heater0([s1 EXCEPT !.bCheckingOnHeater = TRUE])
            ELSE s1
    ELSE [s EXCEPT !.oTimer4minTempHeater = TRUE, !.bCheckingOnHeater = FALSE]

\* The bed part of check_min_temp_raw's delayed logic.
min_temp_bed(s, elapsed) ==
    IF s.target_temperature_bed_isr > BED_MINTEMP
    THEN LET chk == s.bCheckingOnBed
                    \/ (s.current_temperature_bed_isr > BED_MINTEMP + TEMP_HYSTERESIS)
             exp == TimerExpired(s.oTimer4minTempBed, elapsed)
             run == TimerAfterExpired(s.oTimer4minTempBed, elapsed)
             s1 == [s EXCEPT !.bCheckingOnBed = chk, !.oTimer4minTempBed = run]
         IN IF exp \/ ~run \/ chk
            THEN check_min_temp_bed([s1 EXCEPT !.bCheckingOnBed = TRUE])
            ELSE s1
    ELSE [s EXCEPT !.oTimer4minTempBed = TRUE, !.bCheckingOnBed = FALSE]

\* check_min_temp_raw; elapsedH, elapsedB: whether HEATER_MINTEMP_DELAY /
\* BED_MINTEMP_DELAY have elapsed on the two timers.
check_min_temp_raw(s, elapsedH, elapsedB) ==
    LET s1 == check_min_temp_ambient(s)
    IN IF s1.current_temperature_raw_ambient > OVERSAMPLENR * MINTEMP_MINAMBIENT_RAW
       THEN min_temp_bed(min_temp_nozzle(s1, elapsedH), elapsedB)
       ELSE check_min_temp_bed(check_min_temp_heater0(s1))

check_temp_raw(s, elapsedH, elapsedB) ==
    check_min_temp_raw(check_max_temp_raw(s), elapsedH, elapsedB)

\* temp_runaway_check at a 2-second sample.  The status automaton and the
\* tracked target are as in the code; the two counters' verdicts are inputs:
\*   preheat_over: this sample is a progress check and __preheat_errors
\*                 exceeds its limit after it,
\*   counter_over: temp_runaway_error_counter * 2 exceeds the timeout after
\*                 this sample.
RunawayStatusAfterTarget_preheat_at_zero(s, id, target) ==
    IF s.temp_runaway_target[id] # target THEN TempRunaway_PREHEAT
    ELSE s.temp_runaway_status[id]

RunawayStatusAfterTarget(s, id, target) ==
    IF s.temp_runaway_target[id] # target
    THEN (IF target > 0 THEN TempRunaway_PREHEAT ELSE TempRunaway_INACTIVE)
    ELSE s.temp_runaway_status[id]

RunawayPreheatChecked(s, id, target, current) ==
    (current < target) /\ RunawayStatusAfterTarget(s, id, target) = TempRunaway_PREHEAT

RunawayStatusAfterSample(s, id, target, current, hysteresis) ==
    LET st == RunawayStatusAfterTarget(s, id, target)
    IN IF (current > target - hysteresis) /\ st = TempRunaway_PREHEAT
       THEN TempRunaway_ACTIVE ELSE st

RunawayCounted_any_status(s, id, target, current, output, hysteresis) ==
    /\ output > 0
    /\ ~((current > target - hysteresis) /\ (current < target + hysteresis))

RunawayCounted(s, id, target, current, output, hysteresis) ==
    /\ output > 0
    /\ ~((current > target - hysteresis) /\ (current < target + hysteresis))
    /\ RunawayStatusAfterSample(s, id, target, current, hysteresis) > TempRunaway_PREHEAT

\* The number of stalled windows in a row that __preheat_errors must exceed.
PreheatErrorLimit_hotend(isbed) == 5

PreheatErrorLimit(isbed) == IF isbed THEN 3 ELSE 5

\* The statics of the stalled-heating test after a sample: __preheat_counter
\* and __preheat_start restart with a new target above 0; every 9th (bed:
\* 17th) sample of the preheat phase ends a window, which counts as stalled if
\* the temperature rose by less than __delta (in tenths: 20; bed 30, above 90
\* degC 20, above 105 degC 6) since the window began.
PreheatAfter(s, id, target, current, isbed) ==
    LET restart == s.temp_runaway_target[id] # target /\ target > 0
        start == IF restart THEN current ELSE s.preheat_start[id]
        counter == IF restart THEN 0 ELSE s.preheat_counter[id]
        checked == RunawayPreheatChecked(s, id, target, current)
        window == checked /\ counter + 1 > (IF isbed THEN 16 ELSE 8)
        delta == IF ~isbed THEN 20
                 ELSE IF current > 105 THEN 6 ELSE IF current > 90 THEN 20 ELSE 30
        errors == IF ~window THEN s.preheat_errors[id]
                  ELSE IF 10 * (current - start) < delta
                  THEN (s.preheat_errors[id] + 1) % 256 ELSE 0
    IN [start |-> IF window THEN current ELSE start,
        counter |-> IF window THEN 0 ELSE IF checked THEN counter + 1 ELSE counter,
        errors |-> errors,
        over |-> window /\ errors > PreheatErrorLimit(isbed)]

\* History of the check: the number of consecutive due calls that found the
\* same target above 0 and a temperature above it, counted up to the length of
\* four windows of the bed's stalled-heating test.
StallChecks == 4 * 17
OvershootChecksAfter(s, id, target, current) ==
    IF target > 0 /\ current > target
    THEN IF s.temp_runaway_target[id] # target THEN 1
         ELSE IF s.overshoot_checks[id] < StallChecks THEN s.overshoot_checks[id] + 1
         ELSE StallChecks
    ELSE 0

\* temp_runaway_error_counter (uint16_t) after a sample: cleared with the
\* output at 0, at the change from PREHEAT to ACTIVE and with the output on
\* inside the band; one more with the output on outside the band in a status
\* above PREHEAT, and then compared with __timeout.
RunawayTimeout(isbed) ==
    IF isbed THEN TEMP_RUNAWAY_BED_TIMEOUT ELSE TEMP_RUNAWAY_EXTRUDER_TIMEOUT

ErrorCounterAfter_in_samples(s, id, target, current, output, isbed) ==
    LET hysteresis == IF isbed THEN TEMP_RUNAWAY_BED_HYSTERESIS
                      ELSE TEMP_RUNAWAY_EXTRUDER_HYSTERESIS
        counted == RunawayCounted(s, id, target, current, output, hysteresis)
        c == IF output = 0 THEN 0
             ELSE IF counted THEN s.temp_runaway_error_counter[id] + 1
             ELSE s.temp_runaway_error_counter[id]
    IN [counter |-> c, over |-> counted /\ c > RunawayTimeout(isbed)]

ErrorCounterAfter(s, id, target, current, output, isbed) ==
    LET hysteresis == IF isbed THEN TEMP_RUNAWAY_BED_HYSTERESIS
                      ELSE TEMP_RUNAWAY_EXTRUDER_HYSTERESIS
        c0 == IF output = 0 THEN 0 ELSE s.temp_runaway_error_counter[id]
        c1 == IF (current > target - hysteresis)
                 /\ RunawayStatusAfterTarget(s, id, target) = TempRunaway_PREHEAT
              THEN 0 ELSE c0
        in_band == (current > target - hysteresis) /\ (current < target + hysteresis)
        counted == RunawayCounted(s, id, target, current, output, hysteresis)
        c2 == IF output > 0 /\ in_band THEN 0
              ELSE IF counted THEN (c1 + 1) % 65536 ELSE c1
    IN [counter |-> c2, over |-> counted /\ c2 * 2 > RunawayTimeout(isbed)]

temp_runaway_check(s, id, target, current, output, isbed, in, oob) ==
    IF ~in.due THEN s
    ELSE
    LET hysteresis == IF isbed THEN TEMP_RUNAWAY_BED_HYSTERESIS
                      ELSE TEMP_RUNAWAY_EXTRUDER_HYSTERESIS
        source == IF isbed THEN SrcBed ELSE SrcHotend
        p == PreheatAfter(s, id, target, current, isbed)
        s0 == IF in.follow
              THEN [s EXCEPT !.preheat_start[id] = p.start,
                             !.preheat_counter[id] = p.counter,
                             !.preheat_errors[id] = p.errors,
                             !.overshoot_checks[id] = OvershootChecksAfter(s, id, target, current)]
              ELSE s
        sc == IF in.count
              THEN [s0 EXCEPT !.temp_runaway_error_counter[id] =
                        ErrorCounterAfter(s, id, target, current, output, isbed).counter]
              ELSE s0
        s1 == [sc EXCEPT !.temp_runaway_status[id] = RunawayStatusAfterTarget(s, id, target),
                         !.temp_runaway_target[id] = target]
        s2 == IF RunawayPreheatChecked(s, id, target, current) /\ in.preheat_over
              THEN set_temp_error(s1, source, id, TypePreheat, oob) ELSE s1
        s3 == [s2 EXCEPT !.temp_runaway_status[id] =
                             RunawayStatusAfterSample(s, id, target, current, hysteresis)]
    IN IF RunawayCounted(s, id, target, current, output, hysteresis) /\ in.counter_over
       THEN set_temp_error(s3, source, id, TypeRunaway, oob) ELSE s3

\* The inputs of one temp_runaway_check call that can make a difference: the
\* verdict of the stalled-heating test is the computed one where the
\* environment follows its counters, and free otherwise; so is the verdict of
\* the error counter against the configured timeout.
RunawayInputs(s, env, id, target, current, output, isbed) ==
    LET hysteresis == IF isbed THEN TEMP_RUNAWAY_BED_HYSTERESIS
                      ELSE TEMP_RUNAWAY_EXTRUDER_HYSTERESIS
    IN { in \in [due : env.due, preheat_over : BOOLEAN, counter_over : BOOLEAN,
                 follow : {env.counters}, count : {env.runaway}] :
           /\ in.preheat_over =>
                  (in.due /\ RunawayPreheatChecked(s, id, target, current))
           /\ in.counter_over =>
                  (in.due /\ RunawayCounted(s, id, target, current, output, hysteresis))
           /\ (in.follow /\ in.due) =>
                  in.preheat_over = PreheatAfter(s, id, target, current, isbed).over
           /\ (in.count /\ in.due) =>
                  in.counter_over =
                      ErrorCounterAfter(s, id, target, current, output, isbed).over }

\* Comparisons of floats: every ordered comparison with NAN is false, and
\* NAN differs from everything, itself included.
Ge(x, y) == x # NaN /\ y # NaN /\ x >= y
Gt(x, y) == x # NaN /\ y # NaN /\ x > y
Ne(x, y) == x = NaN \/ y = NaN \/ x # y
isnan(x) == x = NaN

\* temp_model::data as the static initialiser leaves it, and after
\* temp_model_load_settings has read a calibrated parameter set.
StaticData ==
    [P |-> 0, C |-> 0, R |-> [i \in 0..(TEMP_MODEL_R_SIZE - 1) |-> 0], Ta_corr |-> 0,
     warn |-> 0, err |-> 0,
     dT_lag_buf |-> [i \in 0..(TEMP_MODEL_LAG_SIZE - 1) |-> 0], dT_lag_idx |-> 0,
     uninitialized |-> FALSE]
LoadedData ==
    [StaticData EXCEPT !.P = TEMP_MODEL_P, !.C = 1,
                       !.R = [i \in 0..(TEMP_MODEL_R_SIZE - 1) |-> 1],
                       !.Ta_corr = TEMP_MODEL_Ta_corr, !.warn = TEMP_MODEL_W,
                       !.err = TEMP_MODEL_E, !.uninitialized = TRUE]

\* model_data::step: the filtered dT (not followed: 1 stands for a value
\* written by a step) goes to the entry after dT_lag_idx, which becomes the
\* index.
model_data_step_unwrapped(d) ==
    LET dT_next_idx == d.dT_lag_idx + 1
    IN [d EXCEPT !.dT_lag_buf = [i \in DOMAIN d.dT_lag_buf \cup {dT_next_idx} |->
                                     IF i = dT_next_idx THEN 1 ELSE d.dT_lag_buf[i]],
                 !.dT_lag_idx = dT_next_idx]

model_data_step(d) ==
    LET dT_next_idx == IF d.dT_lag_idx = TEMP_MODEL_LAG_SIZE - 1 THEN 0
                       ELSE d.dT_lag_idx + 1
    IN [d EXCEPT !.dT_lag_buf[dT_next_idx] = 1, !.dT_lag_idx = dT_next_idx]

\* model_data::reset: buffer zeroed, index 0, one step to seed the first
\* delta, flag cleared.
model_data_reset(d) ==
    [model_data_step([d EXCEPT !.dT_lag_buf = [i \in 0..(TEMP_MODEL_LAG_SIZE - 1) |-> 0],
                               !.dT_lag_idx = 0])
        EXCEPT !.uninitialized = FALSE]

\* temp_model::calibrated
calibrated(d) ==
    /\ Ge(d.P, 0)
    /\ Ge(d.C, 0)
    /\ Ne(d.Ta_corr, NaN)
    /\ \A i \in 0..(TEMP_MODEL_R_SIZE - 1) : Ge(d.R[i], 0)
    /\ Ne(d.warn, NaN)
    /\ Ne(d.err, NaN)

\* temp_model::check with the observer's two verdicts of this step given; the
\* lag buffer is followed where the tick says so.
temp_model_check(s, flag_error, flag_warning) ==
    IF ~s.temp_model_enabled THEN s
    ELSE LET d1 == IF s.data.uninitialized THEN model_data_reset(s.data) ELSE s.data
             s0 == IF s.follow_lag THEN [s EXCEPT !.data = model_data_step(d1)] ELSE s
             s1 == IF flag_error
                   THEN set_temp_error(s0, SrcHotend, 0, TypeModel, 0) ELSE s0
         IN [s1 EXCEPT !.warning_state =
                 [assert |-> flag_warning,
                  warning |-> s.warning_state.warning \/ flag_warning]]

ModelInputs(s, env) ==
    IF s.temp_model_enabled THEN env.model ELSE {<<FALSE, FALSE>>}

\* The conversions read the raw counts one channel after the other; a late
\* adc_callback (s.adc_late) replaces the counts not yet converted, and the
\* limit guard that follows reads the new counts of all channels.
setIsrTemperaturesFromRawValues(s) ==
    LET late == s.adc_late
        raw_bed == IF late.at = 1 THEN late.sample[2] ELSE s.current_temperature_bed_raw
        raw_ambient == IF late.at \in {1, 2} THEN late.sample[3]
                       ELSE s.current_temperature_raw_ambient
        converted == <<s.current_temperature_raw, raw_bed, raw_ambient>>
        checked == IF late.at = 0
                   THEN <<s.current_temperature_raw, s.current_temperature_bed_raw,
                          s.current_temperature_raw_ambient>>
                   ELSE late.sample
    IN [s EXCEPT !.current_temperature_isr = analog2temp(converted[1]),
                 !.current_temperature_bed_isr = analog2tempBed(converted[2]),
                 !.current_temperature_ambient_isr = analog2tempAmbient(converted[3]),
                 !.temp_meas_ready = TRUE,
                 !.current_temperature_raw = checked[1],
                 !.current_temperature_bed_raw = checked[2],
                 !.current_temperature_raw_ambient = checked[3],
                 !.raw_cycle_torn = (converted # checked)]

\* ------------------------------------------------------------ manager tick
\* A variant of the tick's first part that leaves `assert` as it was.
temp_mgr_isr_raw_keeps_assert(s, elapsedH, elapsedB) ==
    check_temp_raw([setIsrTemperaturesFromRawValues(s) EXCEPT !.tick_raised = FALSE],
                   elapsedH, elapsedB)

\* temp_mgr_isr up to the limit guard: conversion, assert cleared, raw checks.
temp_mgr_isr_raw(s, elapsedH, elapsedB) ==
    LET s1 == setIsrTemperaturesFromRawValues(s)
        s2 == [s1 EXCEPT !.temp_error_state.assert = FALSE, !.tick_raised = FALSE]
    IN check_temp_raw(s2, elapsedH, elapsedB)

\* check_temp_runaway: hotend e is heater id e+1, the bed is id 0.
check_temp_runaway_hotend(s, in, oob) ==
    temp_runaway_check(s, 1, s.target_temperature_isr, s.current_temperature_isr,
                       s.soft_pwm, FALSE, in, oob)
check_temp_runaway_bed(s, in) ==
    temp_runaway_check(s, 0, s.target_temperature_bed_isr, s.current_temperature_bed_isr,
                       s.soft_pwm_bed, TRUE, in, 0)

\* temp_mgr_isr with this tick's inputs: in.elapsedH/elapsedB (min-temp delay
\* timers), in.hotend/in.bed (runaway samples), in.oob (out-of-bounds read),
\* in.model (observer verdicts), in.po/in.pob (regulator outputs).
temp_mgr_isr_checks(s, in) ==
    temp_model_check(
        check_temp_runaway_bed(
            check_temp_runaway_hotend(temp_mgr_isr_raw(s, in.elapsedH, in.elapsedB),
                                      in.hotend, in.oob),
            in.bed),
        in.model[1], in.model[2])

temp_mgr_isr(s, in) ==
    LET s6 == temp_mgr_isr_checks(s, in)
    IN IF s6.pid_tuning_finished THEN temp_mgr_pid(s6, in.po, in.pob) ELSE s6

TickInput(eh, eb, rh, rb, oob, m, po, pob) ==
    [elapsedH |-> eh, elapsedB |-> eb, hotend |-> rh, bed |-> rb, oob |-> oob,
     model |-> m, po |-> po, pob |-> pob]

\* The values of each input that can make a difference.
ElapsedInputs(running, s, heating) ==
    IF running /\ heating
       /\ s.current_temperature_raw_ambient > OVERSAMPLENR * MINTEMP_MINAMBIENT_RAW
    THEN BOOLEAN ELSE {FALSE}
OobInputs(s, in) ==
    IF (in.preheat_over \/ in.counter_over) /\ ~s.temp_error_state.error
    THEN OutOfBoundsReads ELSE {0}
PidInputs(s, env, target, current, limit) ==
    IF s.pid_tuning_finished /\ target # 0 /\ current < limit THEN env.pid ELSE {0}

\* Observation only: the body's runs on one ADC cycle, counted up to
\* MaxRunsOnCycle.
OneMoreRunOnCycle(n) == IF n < MaxRunsOnCycle THEN n + 1 ELSE n

\* One run of temp_mgr_isr on state s, for every input: Run(result) holds the
\* caller's writes.
TempMgrIsrRuns(s, env, Run(_)) ==
    \E eh \in ElapsedInputs(s.oTimer4minTempHeater, s, s.target_temperature_isr > minttemp),
       eb \in ElapsedInputs(s.oTimer4minTempBed, s, s.target_temperature_bed_isr > BED_MINTEMP) :
      LET s3 == temp_mgr_isr_raw(s, eh, eb)
      IN \E rh \in RunawayInputs(s3, env, 1, s3.target_temperature_isr,
                                 s3.current_temperature_isr, s3.soft_pwm, FALSE) :
         \E oob \in OobInputs(s3, rh) :
           LET s4 == check_temp_runaway_hotend(s3, rh, oob)
           IN \E rb \in RunawayInputs(s4, env, 0, s4.target_temperature_bed_isr,
                                      s4.current_temperature_bed_isr, s4.soft_pwm_bed, TRUE) :
              \E m \in ModelInputs(s4, env) :
                LET s6 == temp_mgr_isr_checks(s, TickInput(eh, eb, rh, rb, oob, m, 0, 0))
                IN \E po \in PidInputs(s6, env, s6.target_temperature_isr,
                                       s6.current_temperature_isr, maxttemp),
                      pob \in PidInputs(s6, env, s6.target_temperature_bed_isr,
                                        s6.current_temperature_bed_isr, BED_MAXTEMP) :
                     Run([temp_mgr_isr(s, TickInput(eh, eb, rh, rb, oob, m, po, pob))
                            EXCEPT !.runs_on_cycle = OneMoreRunOnCycle(@)])

\* Write a tick's (or a foreground critical section's) result back.
Commit(s) ==
    /\ current_temperature_isr' = s.current_temperature_isr
    /\ current_temperature_bed_isr' = s.current_temperature_bed_isr
    /\ current_temperature_ambient_isr' = s.current_temperature_ambient_isr
    /\ temp_meas_ready' = s.temp_meas_ready
    /\ target_temperature' = s.target_temperature
    /\ target_temperature_bed' = s.target_temperature_bed
    /\ target_temperature_isr' = s.target_temperature_isr
    /\ target_temperature_bed_isr' = s.target_temperature_bed_isr
    /\ soft_pwm' = s.soft_pwm
    /\ soft_pwm_bed' = s.soft_pwm_bed
    /\ pid_reset' = s.pid_reset
    /\ pid_tuning_finished' = s.pid_tuning_finished
    /\ temp_error_state' = s.temp_error_state
    /\ saved_bed_temperature' = s.saved_bed_temperature
    /\ saved_extruder_temperature' = s.saved_extruder_temperature
    /\ saved_fan_speed' = s.saved_fan_speed
    /\ temp_runaway_status' = s.temp_runaway_status
    /\ temp_runaway_target' = s.temp_runaway_target
    /\ preheat_start' = s.preheat_start
    /\ preheat_counter' = s.preheat_counter
    /\ preheat_errors' = s.preheat_errors
    /\ overshoot_checks' = s.overshoot_checks
    /\ temp_runaway_error_counter' = s.temp_runaway_error_counter
    /\ raw_cycle_torn' = s.raw_cycle_torn
    /\ data' = s.data
    /\ bCheckingOnHeater' = s.bCheckingOnHeater
    /\ bCheckingOnBed' = s.bCheckingOnBed
    /\ oTimer4minTempHeater' = s.oTimer4minTempHeater
    /\ oTimer4minTempBed' = s.oTimer4minTempBed
    /\ warning_state' = s.warning_state
    /\ raised_since_clear' = s.raised_since_clear
    /\ tick_raised' = s.tick_raised
    /\ runs_on_cycle' = s.runs_on_cycle
    /\ heater_0_pin' = s.heater_0_pin

\* adc_callback: a completed ADC cycle overwrites the raw counts.  A cycle is
\* started by temp_mgr_init and then by each tick that consumed the last one.
adc_callback(env) ==
    /\ ~adc_values_ready
    /\ \E sample \in env.samples :
         /\ current_temperature_raw' = sample[1]
         /\ current_temperature_bed_raw' = sample[2]
         /\ current_temperature_raw_ambient' = sample[3]
    /\ adc_values_ready' = TRUE
    /\ runs_on_cycle' = 0
    /\ UNCHANGED <<isr_temp_vars, fg_temp_vars, temp_meas_ready, target_vars,
                   isr_target_vars, duty_vars, pid_tuning_finished, temp_error_state,
                   saved_vars, fanSpeed, detector_vars, temp_model_enabled,
                   warning_state, beeper_vars, temp_mgr_interrupt, pc, handler_vars, raised_since_clear,
                   tick_raised,
                   routine_vars, mh_return>>
    /\ UNCHANGED aux_vars
    /\ UNCHANGED heater_0_pin

\* A variant of the handler without the test of adc_values_ready.
TIMER5_COMPA_vect_free_running(env) ==
    /\ temp_mgr_interrupt
    /\ adc_values_ready' = FALSE
    /\ TempMgrIsrRuns([IsrState EXCEPT !.follow_lag = env.lag], env, Commit)
    /\ UNCHANGED <<current_temperature_raw, current_temperature_bed_raw,
                   current_temperature_raw_ambient, fg_temp_vars, fanSpeed,
                   temp_model_enabled, beeper_vars, temp_mgr_interrupt, pc, handler_vars,
                   routine_vars, mh_return>>
    /\ UNCHANGED aux_vars

\* The result of a tick inside which the ADC cycle it started has completed.
CommitCycleCompleted(s) == Commit([s EXCEPT !.runs_on_cycle = 0])

\* ISR(TIMER5_COMPA_vect): returns at once unless an ADC cycle has completed.
TIMER5_COMPA_vect(env) ==
    /\ temp_mgr_interrupt
    /\ adc_values_ready
    /\ adc_values_ready' = FALSE
    /\ TempMgrIsrRuns([IsrState EXCEPT !.follow_lag = env.lag], env, Commit)
    /\ UNCHANGED <<current_temperature_raw, current_temperature_bed_raw,
                   current_temperature_raw_ambient, fg_temp_vars, fanSpeed,
                   temp_model_enabled, beeper_vars, temp_mgr_interrupt, pc, handler_vars,
                   routine_vars, mh_return>>
    /\ UNCHANGED aux_vars

\* The same handler when the ADC cycle it started completes before its limit
\* guard has read the raw counts: adc_callback runs inside the tick.
TIMER5_COMPA_vect_preempted(env) ==
    /\ temp_mgr_interrupt
    /\ adc_values_ready
    /\ \E sample \in env.samples, at \in AdcLate :
         /\ current_temperature_raw' = sample[1]
         /\ current_temperature_bed_raw' = sample[2]
         /\ current_temperature_raw_ambient' = sample[3]
         /\ TempMgrIsrRuns([IsrState EXCEPT !.adc_late = [at |-> at, sample |-> sample]],
                           env, CommitCycleCompleted)
    /\ adc_values_ready' = TRUE
    /\ UNCHANGED <<fg_temp_vars, fanSpeed, temp_model_enabled, beeper_vars, temp_mgr_interrupt,
                   pc, handler_vars, routine_vars, mh_return>>
    /\ UNCHANGED aux_vars

\* --------------------------------------------------------------- foreground
\* Writes of the command layer (setTargetHotend, setTargetBed, fanSpeed).
fg_frame == <<adc_vars, isr_temp_vars, temp_meas_ready, isr_target_vars, duty_vars,
              pid_tuning_finished, saved_vars, detector_vars, temp_model_enabled,
              temp_mgr_interrupt, tick_raised, runs_on_cycle, routine_vars>>

setTargetHotend ==
    /\ pc = "idle"
    /\ \E celsius \in HotendTargets : target_temperature' = celsius
    /\ UNCHANGED <<fg_frame, fg_temp_vars, target_temperature_bed, temp_error_state,
                   fanSpeed, warning_state, beeper_vars, pc, handler_vars, raised_since_clear, mh_return>>
    /\ UNCHANGED aux_vars
    /\ UNCHANGED heater_0_pin

setTargetBed(targets) ==
    /\ pc = "idle"
    /\ \E celsius \in targets : target_temperature_bed' = celsius
    /\ UNCHANGED <<fg_frame, fg_temp_vars, target_temperature, temp_error_state,
                   fanSpeed, warning_state, beeper_vars, pc, handler_vars, raised_since_clear, mh_return>>
    /\ UNCHANGED aux_vars
    /\ UNCHANGED heater_0_pin

setFanSpeed ==
    /\ pc = "idle"
    /\ \E speed \in FanSpeeds : fanSpeed' = speed
    /\ UNCHANGED <<fg_frame, fg_temp_vars, target_vars, temp_error_state,
                   warning_state, beeper_vars, pc, handler_vars, raised_since_clear, mh_return>>
    /\ UNCHANGED aux_vars
    /\ UNCHANGED heater_0_pin

\* TempMgrGuard: the constructor saves the enable bit and clears it; the
\* destructor sets it when the saved bit was set.  GuardedBlock: the bit after
\* a block that lives under a guard of its own and does not write the bit.
TempMgrGuard_release_always(temp_mgr_state, enabled) == TRUE
TempMgrGuard_enter(enabled) == [temp_mgr_state |-> enabled, enabled |-> FALSE]
TempMgrGuard_release(temp_mgr_state, enabled) == IF temp_mgr_state THEN TRUE ELSE enabled
GuardedBlock(enabled) ==
    LET g == TempMgrGuard_enter(enabled)
    IN TempMgrGuard_release(g.temp_mgr_state, g.enabled)

\* A variant of updateTemperatures that passes the targets on regardless.
updateTemperatures_unconditional(next) ==
    /\ current_temperature' = current_temperature_isr
    /\ current_temperature_bed' = current_temperature_bed_isr
    /\ current_temperature_ambient' = current_temperature_ambient_isr
    /\ target_temperature_isr' = target_temperature
    /\ target_temperature_bed_isr' = target_temperature_bed
    /\ temp_meas_ready' = FALSE
    /\ temp_mgr_interrupt' = GuardedBlock(temp_mgr_interrupt)
    /\ pc' = next

\* updateTemperatures, under its TempMgrGuard: one step.
updateTemperatures(next) ==
    /\ current_temperature' = current_temperature_isr
    /\ current_temperature_bed' = current_temperature_bed_isr
    /\ current_temperature_ambient' = current_temperature_ambient_isr
    /\ IF temp_error_state = NoError
       THEN /\ target_temperature_isr' = target_temperature
            /\ target_temperature_bed_isr' = target_temperature_bed
       ELSE UNCHANGED isr_target_vars
    /\ temp_meas_ready' = FALSE
    /\ temp_mgr_interrupt' = GuardedBlock(temp_mgr_interrupt)
    /\ pc' = next

\* A variant of manage_heater that runs its body at every call.
manage_heater_every_call ==
    /\ pc = "idle"
    /\ updateTemperatures("mh_warning")
    /\ UNCHANGED <<adc_vars, isr_temp_vars, target_vars, duty_vars, pid_tuning_finished,
                   temp_error_state, saved_vars, fanSpeed, detector_vars,
                   temp_model_enabled, warning_state, beeper_vars, handler_vars, obs_vars, routine_vars, mh_return>>
    /\ UNCHANGED aux_vars
    /\ UNCHANGED heater_0_pin

\* manage_heater: returns at once unless the tick has new temperatures.
manage_heater ==
    /\ pc = "idle"
    /\ temp_meas_ready
    /\ updateTemperatures("mh_warning")
    /\ UNCHANGED <<adc_vars, isr_temp_vars, target_vars, duty_vars, pid_tuning_finished,
                   temp_error_state, saved_vars, fanSpeed, detector_vars,
                   temp_model_enabled, warning_state, beeper_vars, handler_vars, obs_vars, routine_vars, mh_return>>
    /\ UNCHANGED aux_vars
    /\ UNCHANGED heater_0_pin

\* Observation only: the successive runs of each handler that found its
\* anomaly asserted, counted up to MaxRuns.
NoRuns == [warning |-> 0, model |-> 0]
OneMoreRun(n) == IF n < MaxRuns THEN n + 1 ELSE n

\* temp_model::handle_warning, called when warning_state.warning is set
\* (warn_beep on; `first` is never written false).
handle_warning ==
    /\ pc = "mh_warning"
    /\ IF warning_state.warning
       THEN IF warning_state.assert
            THEN /\ beeper' = (IF first THEN TRUE ELSE ~beeper)
                 /\ asserted_runs' = [asserted_runs EXCEPT !.warning = OneMoreRun(@)]
                 /\ UNCHANGED <<warning_state, first, alert_vars>>
            ELSE /\ warning_state' = [warning_state EXCEPT !.warning = FALSE]
                 /\ beeper' = FALSE
                 /\ first' = TRUE
                 /\ asserted_runs' = [asserted_runs EXCEPT !.warning = 0]
                 /\ UNCHANGED alert_vars
       ELSE UNCHANGED <<warning_state, beeper_vars>>
    /\ pc' = "mh_error"
    /\ temp_mgr_interrupt' = (IF warning_state.warning
                              THEN GuardedBlock(temp_mgr_interrupt) ELSE temp_mgr_interrupt)
    /\ UNCHANGED <<adc_vars, isr_temp_vars, temp_meas_ready, isr_target_vars, duty_vars,
                   pid_tuning_finished, saved_vars, detector_vars, temp_model_enabled,
                   tick_raised, runs_on_cycle, routine_vars,
                   fg_temp_vars, target_vars, temp_error_state, fanSpeed,
                   handler_vars, raised_since_clear, mh_return>>
    /\ UNCHANGED aux_vars
    /\ UNCHANGED heater_0_pin

\* if(temp_error_state.v) handle_temp_error();
mh_error ==
    /\ pc = "mh_error"
    /\ IF temp_error_state # NoError
       THEN pc' = "hte_type" /\ UNCHANGED mh_return
       ELSE pc' = mh_return /\ mh_return' = "idle"
    /\ UNCHANGED <<fg_frame, fg_temp_vars, target_vars, temp_error_state, fanSpeed,
                   warning_state, beeper_vars, handler_vars, raised_since_clear>>
    /\ UNCHANGED aux_vars
    /\ UNCHANGED heater_0_pin

\* A variant of the type switch whose Model case does not read `assert`.
hte_type_blind ==
    /\ pc = "hte_type"
    /\ h_type' = temp_error_state.type
    /\ pc' = IF temp_error_state.type = TypeModel THEN "hte_act" ELSE "hte_source"
    /\ UNCHANGED <<fg_frame, fg_temp_vars, target_vars, temp_error_state, fanSpeed,
                   warning_state, beeper_vars, h_source, h_assert, raised_since_clear, mh_return>>
    /\ UNCHANGED aux_vars
    /\ UNCHANGED heater_0_pin

\* handle_temp_error: switch((TempErrorType)temp_error_state.type)
hte_type ==
    /\ pc = "hte_type"
    /\ h_type' = temp_error_state.type
    /\ pc' = IF temp_error_state.type = TypeModel THEN "hte_assert" ELSE "hte_source"
    /\ UNCHANGED <<fg_frame, fg_temp_vars, target_vars, temp_error_state, fanSpeed,
                   warning_state, beeper_vars, h_source, h_assert, raised_since_clear, mh_return>>
    /\ UNCHANGED aux_vars
    /\ UNCHANGED heater_0_pin

\* switch((TempErrorSource)temp_error_state.source)
hte_source ==
    /\ pc = "hte_source"
    /\ h_source' = temp_error_state.source
    /\ pc' = IF h_type = TypeMin /\ temp_error_state.source # SrcAmbient
             THEN "hte_assert" ELSE "hte_act"
    /\ UNCHANGED <<fg_frame, fg_temp_vars, target_vars, temp_error_state, fanSpeed,
                   warning_state, beeper_vars, h_type, h_assert, raised_since_clear, mh_return>>
    /\ UNCHANGED aux_vars
    /\ UNCHANGED heater_0_pin

\* if(temp_error_state.assert)
hte_assert ==
    /\ pc = "hte_assert"
    /\ h_assert' = temp_error_state.assert
    /\ pc' = "hte_act"
    /\ UNCHANGED <<fg_frame, fg_temp_vars, target_vars, temp_error_state, fanSpeed,
                   warning_state, beeper_vars, h_type, h_source, raised_since_clear, mh_return>>
    /\ UNCHANGED aux_vars
    /\ UNCHANGED heater_0_pin

\* alert_automaton_mintemp: the states, the repeat counter and one step.
\* sent: the alert a step sends to the display (LCDALERT_NONE: nothing).
ALERT_AUTOMATON_SPEED_DIV == 5
StInit == 0
StTempAboveMintemp == 1
StShowPleaseRestart == 2
StShowMintemp == 3
LCDALERT_NONE == 0
LCDALERT_HEATERMINTEMP == 1
LCDALERT_BEDMINTEMP == 2
LCDALERT_MINTEMPFIXED == 3
LCDALERT_PLEASERESTART == 4
AlertInit == [state |-> StInit, repeat |-> ALERT_AUTOMATON_SPEED_DIV]

substep(a, next_state) ==
    IF a.repeat = 0
    THEN [state |-> next_state, repeat |-> ALERT_AUTOMATON_SPEED_DIV]
    ELSE [a EXCEPT !.repeat = @ - 1]

alert_step(a, current_temp, mintemp) ==
    CASE a.state = StInit ->
           [a |-> IF current_temp > mintemp THEN [a EXCEPT !.state = StTempAboveMintemp] ELSE a,
            sent |-> LCDALERT_NONE]
      [] a.state = StTempAboveMintemp ->
           [a |-> substep(a, StShowMintemp), sent |-> LCDALERT_MINTEMPFIXED]
      [] a.state = StShowPleaseRestart ->
           [a |-> substep(a, StShowMintemp), sent |-> LCDALERT_PLEASERESTART]
      [] OTHER ->
           [a |-> substep(a, StShowPleaseRestart), sent |-> LCDALERT_MINTEMPFIXED]

\* Observation only: automaton steps in a row that sent the same alert,
\* counted up to MaxShown.
ShownAfter(sent) ==
    IF sent = LCDALERT_NONE THEN shown_steps
    ELSE IF sent = last_alert_sent_to_lcd
         THEN (IF shown_steps < MaxShown THEN shown_steps + 1 ELSE shown_steps)
         ELSE 1

\* The Min branch for hotend and bed: min_temp_error / bed_min_temp_error
\* while asserted, a step of the heater's automaton otherwise.
hte_min ==
    IF h_assert
    THEN /\ last_alert_sent_to_lcd' =
              (IF h_source = SrcHotend THEN LCDALERT_HEATERMINTEMP ELSE LCDALERT_BEDMINTEMP)
         /\ shown_steps' = 0
         /\ UNCHANGED <<alert_automaton_hotend, alert_automaton_bed>>
    ELSE LET r == IF h_source = SrcHotend
                  THEN alert_step(alert_automaton_hotend, current_temperature,
                                  minttemp + TEMP_HYSTERESIS)
                  ELSE alert_step(alert_automaton_bed, current_temperature_bed,
                                  BED_MINTEMP + TEMP_HYSTERESIS)
         IN /\ IF h_source = SrcHotend
               THEN alert_automaton_hotend' = r.a /\ UNCHANGED alert_automaton_bed
               ELSE alert_automaton_bed' = r.a /\ UNCHANGED alert_automaton_hotend
            /\ last_alert_sent_to_lcd' =
                 (IF r.sent = LCDALERT_NONE THEN last_alert_sent_to_lcd ELSE r.sent)
            /\ shown_steps' = ShownAfter(r.sent)

\* The branch taken on the values read: the Model branch writes the error
\* word (temp_error_state.v = 0) and the beeper, the Min branch of hotend and
\* bed the display alert (followed when `display` is set); the others post
\* messages and call ThermalStop.
hte_branch(display) ==
    /\ pc = "hte_act"
    /\ IF h_type = TypeModel
       THEN IF h_assert
            THEN /\ beeper' = TRUE
                 /\ asserted_runs' = [asserted_runs EXCEPT !.model = OneMoreRun(@)]
                 /\ UNCHANGED <<temp_error_state, raised_since_clear, first, alert_vars>>
            ELSE /\ temp_error_state' = NoError
                 /\ beeper' = FALSE
                 /\ asserted_runs' = [asserted_runs EXCEPT !.model = 0]
                 /\ UNCHANGED <<first, alert_vars>>
                 /\ raised_since_clear' = [t \in TypeMax..TypeModel |-> NotRaised]
       ELSE IF display /\ h_type = TypeMin /\ h_source # SrcAmbient
            THEN /\ hte_min
                 /\ UNCHANGED <<temp_error_state, beeper, first, asserted_runs,
                                raised_since_clear>>
            ELSE UNCHANGED <<temp_error_state, beeper_vars, raised_since_clear>>
    /\ pc' = mh_return
    /\ mh_return' = "idle"
    /\ h_type' = 0 /\ h_source' = 0 /\ h_assert' = FALSE
    /\ UNCHANGED <<fg_frame, fg_temp_vars, target_vars, fanSpeed, warning_state>>
    /\ UNCHANGED aux_vars
    /\ UNCHANGED heater_0_pin

hte_act == hte_branch(FALSE)
hte_act_display == hte_branch(TRUE)

\* ------------------------------------------------------------- PID_autotune
\* PID_autotune(temp, extruder, ncycles) for hotend 0.  The clock is read at
\* the points where the code compares it: each comparison is an input, and the
\* relay half-periods t_high, t_low come from Durations (all above 5000 ms,
\* the shortest the code accepts).
C_div(a, b) == IF a >= 0 THEN a \div b ELSE -((-a) \div b)
constrain(x, lo, hi) == IF x < lo THEN lo ELSE IF x > hi THEN hi ELSE x

pa_frame == <<adc_vars, isr_temp_vars, target_temperature_bed, soft_pwm_bed, pid_reset,
              temp_error_state, saved_vars, fanSpeed, detector_vars, temp_model_enabled,
              warning_state, beeper_vars, temp_mgr_interrupt, handler_vars, obs_vars,
              cal_vars, mh_return>>

\* preparePidTuning and the initialisation of the locals.
PID_autotune_ncycles(ncycles, echo) ==
    /\ pc = "idle"
    /\ pid_number_of_cycles' = ncycles
    /\ pa_serial' = [NoSerial EXCEPT !.echo = echo]
    /\ Commit([disable_heater(IsrState) EXCEPT !.pid_tuning_finished = FALSE])
    /\ pid_cycle' = 0
    /\ pa_heating' = TRUE
    /\ pa_input' = 0
    /\ pa_t_high' = 0
    /\ pa_safety_check_cycles' = 0
    /\ pa_t1_age' = 0
    /\ pa_t2_age' = 0
    /\ pa_run_age' = 0
    /\ pc' = "pa_init"
    /\ UNCHANGED <<adc_vars, fg_temp_vars, fanSpeed, temp_model_enabled, beeper_vars,
                   temp_mgr_interrupt, handler_vars, pa_bias, pa_d, pa_temp_ambient,
                   cal_vars, mh_return>>
    /\ UNCHANGED aux_vars

PID_autotune == PID_autotune_ncycles(AutotuneCycles, FALSE)

\* soft_pwm[extruder] = (PID_MAX)/2; bias = d = (PID_MAX)/2; target = temp
pa_init ==
    /\ pc = "pa_init"
    /\ soft_pwm' = PID_MAX \div 2
    /\ pa_bias' = PID_MAX \div 2
    /\ pa_d' = PID_MAX \div 2
    /\ target_temperature' = AutotuneTemp
    /\ pc' = "pa_sample"
    /\ UNCHANGED <<pa_frame, fg_temp_vars, temp_meas_ready, isr_target_vars,
                   pid_tuning_finished, pid_cycle, pa_heating, pa_input, pa_t_high,
                   pa_safety_check_cycles, pa_temp_ambient, pa_clock,
                   pid_number_of_cycles, pa_serial>>
    /\ UNCHANGED aux_vars
    /\ UNCHANGED heater_0_pin

\* if(temp_meas_ready == true) { updateTemperatures(); input = current_temperature[extruder];
pa_sample ==
    /\ pc = "pa_sample"
    /\ IF temp_meas_ready
       THEN /\ updateTemperatures("pa_relay")
            /\ pa_input' = current_temperature_isr
       ELSE /\ pc' = "pa_check"
            /\ UNCHANGED <<fg_temp_vars, temp_meas_ready, isr_target_vars, pa_input,
                           temp_mgr_interrupt>>
    /\ UNCHANGED <<adc_vars, isr_temp_vars, target_temperature_bed, soft_pwm_bed, pid_reset,
                   temp_error_state, saved_vars, fanSpeed, detector_vars, temp_model_enabled,
                   warning_state, beeper_vars, handler_vars, obs_vars, cal_vars, mh_return,
                   target_temperature, soft_pwm, pid_tuning_finished,
                   pid_cycle, pa_heating, pa_bias, pa_d, pa_t_high,
                   pa_safety_check_cycles, pa_temp_ambient, pa_clock,
                   pid_number_of_cycles, pa_serial>>
    /\ UNCHANGED aux_vars
    /\ UNCHANGED heater_0_pin

\* The bias and d of the next cycle, from the two half-periods.
NextBias(bias, d, t_high, t_low) ==
    constrain(bias + C_div(d * (t_high - t_low), t_low + t_high), 20, PID_MAX - 20)
NextD(bias) == IF bias > PID_MAX \div 2 THEN PID_MAX - 1 - bias ELSE bias

\* What (_millis() - t) > 5000 can be for an age given in ClockUnit.
Over5s(age) == IF age > 0 THEN {TRUE} ELSE BOOLEAN

\* The serial lines of one switch to the high level: " bias: .. d: .. min: ..
\* max: .." when pid_cycle > 0, and within it " Ku: .. Tu: .." with
\* " Classic PID " and its Kp, Ki, Kd when pid_cycle > 2.
ClassicReported(cycle) == cycle > 2
Echoed(serial, bias_line, classic_lines) ==
    IF ~serial.echo THEN serial
    ELSE [serial EXCEPT !.bias = @ + (IF bias_line THEN 1 ELSE 0),
                        !.classic = @ + (IF bias_line /\ classic_lines THEN 1 ELSE 0)]

\* The relay: heater to the low level when the temperature has passed temp,
\* back to the high level when it has fallen below, each at least 5 s after
\* the last switch.
pa_relay ==
    /\ pc = "pa_relay"
    /\ \E elapsed \in Over5s(IF pa_heating THEN pa_t2_age ELSE pa_t1_age),
          t \in Durations :
         IF pa_heating /\ pa_input > AutotuneTemp /\ elapsed
         THEN /\ pa_heating' = FALSE
              /\ soft_pwm' = (pa_bias - pa_d) \div 2
              /\ pa_t_high' = t
              /\ pa_t1_age' = 0
              /\ UNCHANGED <<pa_bias, pa_d, pid_cycle, pa_t2_age, pa_serial>>
         ELSE IF ~pa_heating /\ pa_input < AutotuneTemp /\ elapsed
         THEN LET bias == IF pid_cycle > 0 THEN NextBias(pa_bias, pa_d, pa_t_high, t)
                          ELSE pa_bias
                  d == IF pid_cycle > 0 THEN NextD(bias) ELSE pa_d
              IN /\ pa_heating' = TRUE
                 /\ pa_bias' = bias
                 /\ pa_d' = d
                 /\ soft_pwm' = (bias + d) \div 2
                 /\ pid_cycle' = pid_cycle + 1
                 /\ pa_t2_age' = 0
                 /\ pa_serial' = Echoed(pa_serial, pid_cycle > 0, ClassicReported(pid_cycle))
                 /\ UNCHANGED <<pa_t_high, pa_t1_age>>
         ELSE UNCHANGED <<pa_heating, soft_pwm, pa_t_high, pa_bias, pa_d, pid_cycle,
                          pa_t1_age, pa_t2_age, pa_serial>>
    /\ pc' = "pa_check"
    /\ UNCHANGED <<pa_frame, fg_temp_vars, temp_meas_ready, target_temperature,
                   isr_target_vars, pid_tuning_finished, pa_input,
                   pa_safety_check_cycles, pa_temp_ambient, pa_run_age, pid_number_of_cycles>>
    /\ UNCHANGED aux_vars
    /\ UNCHANGED heater_0_pin

\* Every return of the loop: pid_tuning_finished = true (pid_cycle = 0 on all
\* but the safety return); the locals die.
pa_return(reset_cycle, finished) ==
    /\ pid_tuning_finished' = TRUE
    /\ pa_serial' = [pa_serial EXCEPT !.finished = pa_serial.echo /\ finished]
    /\ UNCHANGED pid_number_of_cycles
    /\ pid_cycle' = IF reset_cycle THEN 0 ELSE pid_cycle
    /\ pa_heating' = FALSE
    /\ pa_bias' = 0
    /\ pa_d' = 0
    /\ pa_input' = 0
    /\ pa_t_high' = 0
    /\ pa_safety_check_cycles' = 0
    /\ pa_temp_ambient' = 0
    /\ pa_t1_age' = 0
    /\ pa_t2_age' = 0
    /\ pa_run_age' = 0
    /\ pc' = "idle"

Abs(x) == IF x < 0 THEN -x ELSE x

\* The rest of one loop iteration: the too-high check, the 2 s report with
\* its heating safety check, the 20 min timeout, the end after ncycles.
Aged(age, dt) == IF age + dt > MaxAge THEN MaxAge ELSE age + dt

\* ((_millis() - t1) + (_millis() - t2)) > (10L*60L*1000L*2L), or any outcome
\* where the environment does not follow the clock.
TimedOut(env, t1_age, t2_age) ==
    IF env.timeout = {} THEN {t1_age + t2_age > AutotuneTimeout} ELSE env.timeout

pa_check(env) ==
    /\ pc = "pa_check"
    /\ \E report_due \in env.report, dt \in env.clock :
       \E timed_out \in TimedOut(env, Aged(pa_t1_age, dt), Aged(pa_t2_age, dt)) :
         IF pa_input > AutotuneTemp + 20
         THEN pa_return(TRUE, FALSE)
         ELSE IF report_due /\ pa_safety_check_cycles = safety_check_cycles_count
                 /\ Abs(pa_input - pa_temp_ambient) < 5
         THEN pa_return(FALSE, FALSE)
         ELSE IF timed_out \/ pid_cycle > pid_number_of_cycles
         THEN pa_return(TRUE, ~timed_out)
         ELSE /\ IF report_due
                 THEN /\ pa_temp_ambient' = IF pa_safety_check_cycles = 0 THEN pa_input
                                             ELSE pa_temp_ambient
                      /\ pa_safety_check_cycles' =
                             IF pa_safety_check_cycles <= safety_check_cycles_count
                             THEN pa_safety_check_cycles + 1
                             ELSE pa_safety_check_cycles
                 ELSE UNCHANGED <<pa_safety_check_cycles, pa_temp_ambient>>
              /\ pa_t1_age' = Aged(pa_t1_age, dt)
              /\ pa_t2_age' = Aged(pa_t2_age, dt)
              /\ pa_run_age' = Aged(pa_run_age, dt)
              /\ pc' = "pa_sample"
              /\ UNCHANGED <<pid_tuning_finished, pid_cycle, pa_heating, pa_bias, pa_d,
                             pa_input, pa_t_high, pid_number_of_cycles, pa_serial>>
    /\ UNCHANGED <<pa_frame, fg_temp_vars, temp_meas_ready, target_temperature,
                   isr_target_vars, soft_pwm>>
    /\ UNCHANGED aux_vars
    /\ UNCHANGED heater_0_pin

\* ------------------------------------------------------ temp_model_autotune
\* manage_heater called from a waiting loop, to return to ret.
CallManageHeater(ret) ==
    IF temp_meas_ready
    THEN updateTemperatures("mh_warning") /\ mh_return' = ret
    ELSE pc' = ret /\ UNCHANGED <<fg_temp_vars, temp_meas_ready, isr_target_vars, mh_return,
                           temp_mgr_interrupt>>

\* temp_model_autotune(temp) on an idle printer, up to the call of
\* temp_model_cal::autotune and its `fanSpeedSoftPwm = 0`.
temp_model_autotune ==
    /\ pc = "idle"
    /\ cal_was_enabled' = temp_model_enabled
    /\ temp_model_enabled' = FALSE
    /\ fanSpeedSoftPwm' = 0
    /\ cal_i' = 0
    /\ cal_phase' = "C"
    /\ pc' = "at_pass"
    /\ UNCHANGED <<adc_values_ready, current_temperature_raw, current_temperature_bed_raw,
                   current_temperature_raw_ambient, isr_temp_vars, fg_temp_vars,
                   temp_meas_ready, target_temperature, target_temperature_bed,
                   isr_target_vars, duty_vars, pid_tuning_finished, temp_error_state,
                   saved_vars, fanSpeed, detector_vars, warning_state, beeper_vars,
                   temp_mgr_interrupt, handler_vars, obs_vars, tune_vars, mh_return,
                   cal_ri, cal_pos, cal_samples, cal_old_speed, cal_guard, cal_err>>
    /\ UNCHANGED aux_vars
    /\ UNCHANGED heater_0_pin

\* autotune, head of one pass of the C/R loop (and cooldown's entry).
autotune_pass ==
    /\ pc = "at_pass"
    /\ target_temperature' = 0
    /\ IF current_temperature >= TEMP_MODEL_CAL_Tl
       THEN /\ cal_old_speed' = fanSpeedSoftPwm
            /\ fanSpeedSoftPwm' = 255
            /\ pc' = "at_cooldown"
       ELSE /\ pc' = "at_heat"
            /\ UNCHANGED <<cal_old_speed, fanSpeedSoftPwm>>
    /\ UNCHANGED <<adc_values_ready, current_temperature_raw, current_temperature_bed_raw,
                   current_temperature_raw_ambient, isr_temp_vars, fg_temp_vars,
                   temp_meas_ready, target_temperature_bed, isr_target_vars, duty_vars,
                   pid_tuning_finished, temp_error_state, saved_vars, fanSpeed,
                   detector_vars, temp_model_enabled, warning_state, beeper_vars,
                   temp_mgr_interrupt, handler_vars, obs_vars, tune_vars, mh_return, cal_i,
                   cal_ri, cal_phase, cal_pos, cal_samples, cal_was_enabled, cal_guard,
                   cal_err>>
    /\ UNCHANGED aux_vars
    /\ UNCHANGED heater_0_pin

\* cooldown(temp): one evaluation of the loop.
cooldown ==
    /\ pc = "at_cooldown"
    /\ IF /\ current_temperature >= TEMP_MODEL_CAL_Tl
          /\ temp_error_state = NoError
          /\ ~(current_temperature
                 < current_temperature_ambient + TEMP_MODEL_Ta_corr + TEMP_HYSTERESIS)
       THEN CallManageHeater("at_cooldown") /\ UNCHANGED fanSpeedSoftPwm
       ELSE /\ fanSpeedSoftPwm' = cal_old_speed
            /\ pc' = "at_wait_cool"
            /\ UNCHANGED <<fg_temp_vars, temp_meas_ready, isr_target_vars, mh_return,
                           temp_mgr_interrupt>>
    /\ UNCHANGED <<adc_values_ready, current_temperature_raw, current_temperature_bed_raw,
                   current_temperature_raw_ambient, isr_temp_vars, target_temperature,
                   target_temperature_bed, duty_vars, pid_tuning_finished,
                   temp_error_state, saved_vars, fanSpeed, detector_vars,
                   temp_model_enabled, warning_state, beeper_vars, handler_vars, obs_vars, tune_vars, cal_i, cal_ri, cal_phase, cal_pos,
                   cal_samples, cal_old_speed, cal_was_enabled, cal_guard, cal_err>>
    /\ UNCHANGED aux_vars
    /\ UNCHANGED heater_0_pin

\* wait(ms) called at `here` and followed by `next`: one evaluation of the
\* loop; expired tells whether _millis() has reached the mark.
wait(here, next) ==
    /\ pc = here
    /\ \E expired \in BOOLEAN :
         IF expired \/ temp_error_state # NoError
         THEN /\ pc' = next
              /\ UNCHANGED <<fg_temp_vars, temp_meas_ready, isr_target_vars, mh_return,
                           temp_mgr_interrupt>>
         ELSE CallManageHeater(here)
    /\ UNCHANGED <<adc_values_ready, current_temperature_raw, current_temperature_bed_raw,
                   current_temperature_raw_ambient, isr_temp_vars, target_temperature,
                   target_temperature_bed, duty_vars, pid_tuning_finished,
                   temp_error_state, saved_vars, fanSpeed, detector_vars,
                   temp_model_enabled, warning_state, beeper_vars, handler_vars, obs_vars, tune_vars, fanSpeedSoftPwm, cal_i, cal_ri,
                   cal_phase, cal_pos, cal_samples, cal_old_speed, cal_was_enabled,
                   cal_guard, cal_err>>
    /\ UNCHANGED aux_vars
    /\ UNCHANGED heater_0_pin

\* wait_temp(): one evaluation of the loop, then `if(i) break;`.
wait_temp ==
    /\ pc = "at_wait_temp"
    /\ IF current_temperature < target_temperature - TEMP_HYSTERESIS
          /\ temp_error_state = NoError
       THEN CallManageHeater("at_wait_temp")
       ELSE /\ pc' = IF cal_i # 0 THEN "at_fan_start" ELSE "at_wait_settle"
            /\ UNCHANGED <<fg_temp_vars, temp_meas_ready, isr_target_vars, mh_return,
                           temp_mgr_interrupt>>
    /\ UNCHANGED <<adc_values_ready, current_temperature_raw, current_temperature_bed_raw,
                   current_temperature_raw_ambient, isr_temp_vars, target_temperature,
                   target_temperature_bed, duty_vars, pid_tuning_finished,
                   temp_error_state, saved_vars, fanSpeed, detector_vars,
                   temp_model_enabled, warning_state, beeper_vars, handler_vars, obs_vars, tune_vars, fanSpeedSoftPwm, cal_i, cal_ri,
                   cal_phase, cal_pos, cal_samples, cal_old_speed, cal_was_enabled,
                   cal_guard, cal_err>>
    /\ UNCHANGED aux_vars
    /\ UNCHANGED heater_0_pin

\* target_temperature[0] = cal_temp;
autotune_heat ==
    /\ pc = "at_heat"
    /\ target_temperature' = CalTemp
    /\ pc' = "rec_enter"
    /\ UNCHANGED <<adc_values_ready, current_temperature_raw, current_temperature_bed_raw,
                   current_temperature_raw_ambient, isr_temp_vars, fg_temp_vars,
                   temp_meas_ready, target_temperature_bed, isr_target_vars, duty_vars,
                   pid_tuning_finished, temp_error_state, saved_vars, fanSpeed,
                   detector_vars, temp_model_enabled, warning_state, beeper_vars,
                   temp_mgr_interrupt, handler_vars, obs_vars, tune_vars, mh_return,
                   fanSpeedSoftPwm, cal_i, cal_ri, cal_phase, cal_pos, cal_samples,
                   cal_old_speed, cal_was_enabled, cal_guard, cal_err>>
    /\ UNCHANGED aux_vars
    /\ UNCHANGED heater_0_pin

\* record(): the guard is taken, pos = 0.
record ==
    /\ pc = "rec_enter"
    /\ cal_guard' = TempMgrGuard_enter(temp_mgr_interrupt).temp_mgr_state
    /\ temp_mgr_interrupt' = TempMgrGuard_enter(temp_mgr_interrupt).enabled
    /\ cal_pos' = 0
    /\ pc' = "rec_loop"
    /\ UNCHANGED <<adc_values_ready, current_temperature_raw, current_temperature_bed_raw,
                   current_temperature_raw_ambient, isr_temp_vars, fg_temp_vars,
                   temp_meas_ready, target_temperature, target_temperature_bed,
                   isr_target_vars, duty_vars, pid_tuning_finished, temp_error_state,
                   saved_vars, fanSpeed, detector_vars, temp_model_enabled, warning_state,
                   beeper_vars, handler_vars, obs_vars, tune_vars, mh_return, fanSpeedSoftPwm,
                   cal_i, cal_ri, cal_phase, cal_samples, cal_old_speed, cal_was_enabled,
                   cal_err>>
    /\ UNCHANGED aux_vars
    /\ UNCHANGED heater_0_pin

\* record(): the buffer is full, return pos; the guard restores the enable bit.
record_return ==
    /\ pc = "rec_loop"
    /\ cal_pos >= REC_BUFFER_SIZE
    /\ cal_samples' = cal_pos
    /\ temp_mgr_interrupt' = TempMgrGuard_release(cal_guard, temp_mgr_interrupt)
    /\ pc' = "at_recorded"
    /\ UNCHANGED <<adc_values_ready, current_temperature_raw, current_temperature_bed_raw,
                   current_temperature_raw_ambient, isr_temp_vars, fg_temp_vars,
                   temp_meas_ready, target_temperature, target_temperature_bed,
                   isr_target_vars, duty_vars, pid_tuning_finished, temp_error_state,
                   saved_vars, fanSpeed, detector_vars, temp_model_enabled, warning_state,
                   beeper_vars, handler_vars, obs_vars, tune_vars, mh_return, fanSpeedSoftPwm,
                   cal_i, cal_ri, cal_phase, cal_pos, cal_old_speed, cal_was_enabled,
                   cal_guard, cal_err>>
    /\ UNCHANGED aux_vars
    /\ UNCHANGED heater_0_pin

\* record(): the timer flag is not set yet: manage_heater(); continue;
record_wait ==
    /\ pc = "rec_loop"
    /\ cal_pos < REC_BUFFER_SIZE
    /\ CallManageHeater("rec_loop")
    /\ UNCHANGED <<adc_values_ready, current_temperature_raw, current_temperature_bed_raw,
                   current_temperature_raw_ambient, isr_temp_vars, target_temperature,
                   target_temperature_bed, duty_vars, pid_tuning_finished,
                   temp_error_state, saved_vars, fanSpeed, detector_vars,
                   temp_model_enabled, warning_state, beeper_vars, handler_vars, obs_vars, tune_vars, fanSpeedSoftPwm, cal_i, cal_ri,
                   cal_phase, cal_pos, cal_samples, cal_old_speed, cal_was_enabled,
                   cal_guard, cal_err>>
    /\ UNCHANGED aux_vars
    /\ UNCHANGED heater_0_pin

\* record(): the timer flag is set and an ADC cycle has completed: the flag
\* is cleared and the tick's body run by hand.
record_tick(env) ==
    /\ pc = "rec_loop"
    /\ cal_pos < REC_BUFFER_SIZE
    /\ adc_values_ready
    /\ adc_values_ready' = FALSE
    /\ TempMgrIsrRuns(IsrState, env, Commit)
    /\ pc' = "rec_check"
    /\ UNCHANGED <<current_temperature_raw, current_temperature_bed_raw,
                   current_temperature_raw_ambient, fg_temp_vars, fanSpeed,
                   temp_model_enabled, beeper_vars, temp_mgr_interrupt, handler_vars, tune_vars,
                   mh_return, fanSpeedSoftPwm, cal_i, cal_ri, cal_phase, cal_pos,
                   cal_samples, cal_old_speed, cal_was_enabled, cal_guard, cal_err>>
    /\ UNCHANGED aux_vars

\* record(): return 0 on an error, else store the entry and call
\* waiting_handler.
record_entry ==
    /\ pc = "rec_check"
    /\ IF temp_error_state # NoError
       THEN /\ cal_samples' = 0
            /\ temp_mgr_interrupt' = TempMgrGuard_release(cal_guard, temp_mgr_interrupt)
            /\ pc' = "at_recorded"
            /\ UNCHANGED <<cal_pos, fg_temp_vars, temp_meas_ready, isr_target_vars, mh_return>>
       ELSE /\ cal_pos' = cal_pos + 1
            /\ CallManageHeater("rec_loop")
            /\ UNCHANGED cal_samples
    /\ UNCHANGED <<adc_values_ready, current_temperature_raw, current_temperature_bed_raw,
                   current_temperature_raw_ambient, isr_temp_vars, target_temperature,
                   target_temperature_bed, duty_vars, pid_tuning_finished,
                   temp_error_state, saved_vars, fanSpeed, detector_vars,
                   temp_model_enabled, warning_state, beeper_vars, handler_vars, obs_vars,
                   tune_vars, fanSpeedSoftPwm, cal_i, cal_ri, cal_phase, cal_old_speed,
                   cal_was_enabled, cal_guard, cal_err>>
    /\ UNCHANGED aux_vars
    /\ UNCHANGED heater_0_pin

\* if(temp_error_state.v || !samples) return true;  else estimate() starts.
autotune_recorded ==
    /\ pc = "at_recorded"
    /\ IF temp_error_state # NoError \/ cal_samples = 0
       THEN cal_err' = TRUE /\ pc' = "tma_end"
       ELSE pc' = "cal_estimating" /\ UNCHANGED cal_err
    /\ UNCHANGED <<adc_values_ready, current_temperature_raw, current_temperature_bed_raw,
                   current_temperature_raw_ambient, isr_temp_vars, fg_temp_vars,
                   temp_meas_ready, target_temperature, target_temperature_bed,
                   isr_target_vars, duty_vars, pid_tuning_finished, temp_error_state,
                   saved_vars, fanSpeed, detector_vars, temp_model_enabled, warning_state,
                   beeper_vars, temp_mgr_interrupt, handler_vars, obs_vars, tune_vars,
                   mh_return, fanSpeedSoftPwm, cal_i, cal_ri, cal_phase, cal_pos,
                   cal_samples, cal_old_speed, cal_was_enabled, cal_guard>>
    /\ UNCHANGED aux_vars
    /\ UNCHANGED heater_0_pin

\* estimate() returns, NaN or converged, and autotune goes on: after C to
\* wait_temp, after R[0] to the second pass, after R[i] to the next fan step
\* or, after the last, through the interpolation to `return false`.
estimate ==
    /\ pc = "cal_estimating"
    /\ \E converged \in BOOLEAN :
         IF ~converged
         THEN cal_err' = TRUE /\ pc' = "tma_end" /\ UNCHANGED <<cal_i, cal_ri, cal_phase>>
         ELSE IF cal_phase = "C"
         THEN /\ pc' = "at_wait_temp"
              /\ cal_phase' = IF cal_i # 0 THEN "Rfan" ELSE "R"
              /\ UNCHANGED <<cal_i, cal_ri, cal_err>>
         ELSE IF cal_phase = "R"
         THEN /\ cal_i' = cal_i + 1
              /\ cal_phase' = "C"
              /\ pc' = "at_pass"
              /\ UNCHANGED <<cal_ri, cal_err>>
         ELSE IF cal_ri - TEMP_MODEL_CAL_R_STEP > 0
         THEN /\ cal_ri' = cal_ri - TEMP_MODEL_CAL_R_STEP
              /\ pc' = "at_fan_step"
              /\ UNCHANGED <<cal_i, cal_phase, cal_err>>
         ELSE /\ cal_err' = FALSE
              /\ pc' = "tma_end"
              /\ UNCHANGED <<cal_i, cal_ri, cal_phase>>
    /\ UNCHANGED <<adc_values_ready, current_temperature_raw, current_temperature_bed_raw,
                   current_temperature_raw_ambient, isr_temp_vars, fg_temp_vars,
                   temp_meas_ready, target_temperature, target_temperature_bed,
                   isr_target_vars, duty_vars, pid_tuning_finished, temp_error_state,
                   saved_vars, fanSpeed, detector_vars, temp_model_enabled, warning_state,
                   beeper_vars, temp_mgr_interrupt, handler_vars, obs_vars, tune_vars,
                   mh_return, fanSpeedSoftPwm, cal_pos, cal_samples, cal_old_speed,
                   cal_was_enabled, cal_guard>>
    /\ UNCHANGED aux_vars
    /\ UNCHANGED heater_0_pin

\* fanSpeedSoftPwm = 255; before wait(30000) and the fan loop.
autotune_fan_start ==
    /\ pc = "at_fan_start"
    /\ fanSpeedSoftPwm' = 255
    /\ cal_ri' = TEMP_MODEL_R_SIZE - 1
    /\ pc' = "at_wait_fan"
    /\ UNCHANGED <<adc_values_ready, current_temperature_raw, current_temperature_bed_raw,
                   current_temperature_raw_ambient, isr_temp_vars, fg_temp_vars,
                   temp_meas_ready, target_temperature, target_temperature_bed,
                   isr_target_vars, duty_vars, pid_tuning_finished, temp_error_state,
                   saved_vars, fanSpeed, detector_vars, temp_model_enabled, warning_state,
                   beeper_vars, temp_mgr_interrupt, handler_vars, obs_vars, tune_vars,
                   mh_return, cal_i, cal_phase, cal_pos, cal_samples, cal_old_speed,
                   cal_was_enabled, cal_guard, cal_err>>
    /\ UNCHANGED aux_vars
    /\ UNCHANGED heater_0_pin

\* fanSpeedSoftPwm = 256 / TEMP_MODEL_R_SIZE * (i + 1) - 1;
autotune_fan_step ==
    /\ pc = "at_fan_step"
    /\ fanSpeedSoftPwm' = (256 \div TEMP_MODEL_R_SIZE) * (cal_ri + 1) - 1
    /\ pc' = "at_wait_ri"
    /\ UNCHANGED <<adc_values_ready, current_temperature_raw, current_temperature_bed_raw,
                   current_temperature_raw_ambient, isr_temp_vars, fg_temp_vars,
                   temp_meas_ready, target_temperature, target_temperature_bed,
                   isr_target_vars, duty_vars, pid_tuning_finished, temp_error_state,
                   saved_vars, fanSpeed, detector_vars, temp_model_enabled, warning_state,
                   beeper_vars, temp_mgr_interrupt, handler_vars, obs_vars, tune_vars,
                   mh_return, cal_i, cal_ri, cal_phase, cal_pos, cal_samples,
                   cal_old_speed, cal_was_enabled, cal_guard, cal_err>>
    /\ UNCHANGED aux_vars
    /\ UNCHANGED heater_0_pin

\* temp_model_autotune after autotune has returned err.
temp_model_autotune_end ==
    /\ pc = "tma_end"
    /\ target_temperature' = 0
    /\ IF cal_err
       THEN /\ fanSpeedSoftPwm' = IF temp_error_state # NoError THEN 255 ELSE fanSpeedSoftPwm
            /\ UNCHANGED temp_model_enabled
       ELSE /\ fanSpeedSoftPwm' = 0
            /\ temp_model_enabled' = cal_was_enabled
    /\ cal_i' = 0
    /\ cal_ri' = 0
    /\ cal_phase' = "C"
    /\ cal_pos' = 0
    /\ cal_samples' = 0
    /\ cal_old_speed' = 0
    /\ cal_was_enabled' = FALSE
    /\ cal_guard' = FALSE
    /\ cal_err' = FALSE
    /\ pc' = "idle"
    /\ UNCHANGED <<adc_values_ready, current_temperature_raw, current_temperature_bed_raw,
                   current_temperature_raw_ambient, isr_temp_vars, fg_temp_vars,
                   temp_meas_ready, target_temperature_bed, isr_target_vars, duty_vars,
                   pid_tuning_finished, temp_error_state, saved_vars, fanSpeed,
                   detector_vars, warning_state, beeper_vars, temp_mgr_interrupt, handler_vars,
                   obs_vars, tune_vars, mh_return>>
    /\ UNCHANGED aux_vars
    /\ UNCHANGED heater_0_pin

\* ------------------------------------------------------------ specification
\* The state after temp_init, with the observer switched as loaded from EEPROM.
Boot(model_enabled) ==
    /\ adc_values_ready = FALSE
    /\ current_temperature_raw = 0
    /\ current_temperature_bed_raw = 0
    /\ current_temperature_raw_ambient = 0
    /\ current_temperature_isr = 0
    /\ current_temperature_bed_isr = 0
    /\ current_temperature_ambient_isr = 0
    /\ current_temperature = 0
    /\ current_temperature_bed = 0
    /\ current_temperature_ambient = 0
    /\ temp_meas_ready = FALSE
    /\ target_temperature = 0
    /\ target_temperature_bed = 0
    /\ target_temperature_isr = 0
    /\ target_temperature_bed_isr = 0
    /\ soft_pwm = 0
    /\ soft_pwm_bed = 0
    /\ pid_reset = FALSE
    /\ pid_tuning_finished = TRUE
    /\ temp_error_state = NoError
    /\ saved_bed_temperature = 0
    /\ saved_extruder_temperature = 0
    /\ saved_fan_speed = 0
    /\ fanSpeed = 0
    /\ temp_runaway_status = [id \in 0..EXTRUDERS |-> TempRunaway_INACTIVE]
    /\ temp_runaway_target = [id \in 0..EXTRUDERS |-> 0]
    /\ preheat_start = [id \in 0..EXTRUDERS |-> 0]
    /\ preheat_counter = [id \in 0..EXTRUDERS |-> 0]
    /\ preheat_errors = [id \in 0..EXTRUDERS |-> 0]
    /\ overshoot_checks = [id \in 0..EXTRUDERS |-> 0]
    /\ temp_runaway_error_counter = [id \in 0..EXTRUDERS |-> 0]
    /\ raw_cycle_torn = FALSE
    /\ data = IF model_enabled THEN LoadedData ELSE StaticData
    /\ bCheckingOnHeater = FALSE
    /\ bCheckingOnBed = FALSE
    /\ oTimer4minTempHeater = FALSE
    /\ oTimer4minTempBed = FALSE
    /\ temp_model_enabled = model_enabled
    /\ warning_state = [assert |-> FALSE, warning |-> FALSE]
    /\ beeper = FALSE
    /\ first = TRUE
    /\ asserted_runs = NoRuns
    /\ alert_automaton_hotend = AlertInit
    /\ alert_automaton_bed = AlertInit
    /\ last_alert_sent_to_lcd = LCDALERT_NONE
    /\ shown_steps = 0
    /\ temp_mgr_interrupt = TRUE
    /\ pc = "idle"
    /\ h_type = 0
    /\ h_source = 0
    /\ h_assert = FALSE
    /\ raised_since_clear = [t \in TypeMax..TypeModel |-> NotRaised]
    /\ tick_raised = FALSE
    /\ runs_on_cycle = 0
    /\ pid_cycle = 0
    /\ pa_heating = FALSE
    /\ pa_bias = 0
    /\ pa_d = 0
    /\ pa_input = 0
    /\ pa_t_high = 0
    /\ pa_safety_check_cycles = 0
    /\ pa_temp_ambient = 0
    /\ pa_t1_age = 0
    /\ pa_t2_age = 0
    /\ pa_run_age = 0
    /\ pid_number_of_cycles = 0
    /\ pa_serial = NoSerial
    /\ mh_return = "idle"
    /\ fanSpeedSoftPwm = 0
    /\ cal_i = 0
    /\ cal_ri = 0
    /\ cal_phase = "C"
    /\ cal_pos = 0
    /\ cal_samples = 0
    /\ cal_old_speed = 0
    /\ cal_was_enabled = FALSE
    /\ cal_guard = FALSE
    /\ cal_err = FALSE
    /\ heater_0_pin = FALSE
    /\ pwm_count = 2 ^ SOFT_PWM_SCALE
    /\ soft_pwm_0 = 0
    /\ pwm_settled = TRUE
    /\ win_ticks = 0
    /\ win_highs = 0
    /\ win_settled = FALSE
    /\ pwm_pc = "idle"
    /\ heaters_off = FALSE
    /\ iState_sum = 0
    /\ dTerm = 0
    /\ dState_last = 0
    /\ temp_iState_bed = 0
    /\ dTerm_bed = 0
    /\ temp_dState_bed = 0

\* No call of estimate under watch, no interpolation under watch.
NoEstimate == [pc |-> "none"]
NoInterpolation == [pc |-> "none"]

\* No lookup under watch.
NoLookup ==
    /\ lut_table = HEATER_0_TEMPTABLE /\ lut_raw = <<0, 0>> /\ lut_celsius = <<>>
    /\ est = NoEstimate /\ itp = NoInterpolation

Init == Boot(TRUE) /\ cs = StockGains /\ NoLookup

Next ==
    \/ adc_callback(Env)
    \/ TIMER5_COMPA_vect(Env)
    \/ setTargetHotend
    \/ manage_heater
    \/ handle_warning
    \/ mh_error
    \/ hte_type
    \/ hte_source
    \/ hte_assert
    \/ hte_act

Spec == Init /\ [][Next]_vars


\* The same program with every foreground write of targets and fan speed, at
\* room temperature, so that the errors come from the runaway checks and the
\* observer.
TargetsEnv ==
    [samples |-> {<<96, 96, 64>>}, due |-> {TRUE}, model |-> BOOLEAN \X {FALSE},
     pid |-> {PID_MAX}, counters |-> FALSE, lag |-> FALSE, runaway |-> FALSE]

NextTargets ==
    \/ adc_callback(TargetsEnv)
    \/ TIMER5_COMPA_vect(TargetsEnv)
    \/ setTargetHotend
    \/ setTargetBed(BedTargets)
    \/ setFanSpeed
    \/ manage_heater
    \/ handle_warning
    \/ mh_error
    \/ hte_type
    \/ hte_source
    \/ hte_assert
    \/ hte_act

SpecTargets == Init /\ [][NextTargets]_vars

\* The tick against a PID_autotune run: a sample below and one above the
\* tuning temperature; the errors come from the preheat and runaway checks.
TuneEnv ==
    [samples |-> {<<96, 96, 64>>, <<64, 96, 64>>}, due |-> {TRUE},
     model |-> {<<FALSE, FALSE>>}, pid |-> {PID_MAX}, counters |-> FALSE, lag |-> FALSE, runaway |-> FALSE,
     report |-> BOOLEAN, clock |-> {0}, timeout |-> BOOLEAN]

NextTune ==
    \/ adc_callback(TuneEnv)
    \/ TIMER5_COMPA_vect(TuneEnv)
    \/ PID_autotune
    \/ pa_init
    \/ pa_sample
    \/ pa_relay
    \/ pa_check(TuneEnv)

SpecTune == Init /\ [][NextTune]_vars

\* The tick against a calibration run: samples below and at the calibration
\* temperature; errors come from the runaway checks and, with the observer
\* enabled (outside the calibration), from the observer.
CalEnv ==
    [samples |-> {<<96, 96, 64>>, <<64, 96, 64>>}, due |-> {TRUE},
     model |-> BOOLEAN \X {FALSE}, pid |-> {PID_MAX}, counters |-> FALSE, lag |-> FALSE, runaway |-> FALSE]

NextCal ==
    \/ adc_callback(CalEnv)
    \/ TIMER5_COMPA_vect(CalEnv)
    \/ manage_heater
    \/ handle_warning
    \/ mh_error
    \/ hte_type
    \/ hte_source
    \/ hte_assert
    \/ hte_act
    \/ temp_model_autotune
    \/ autotune_pass
    \/ cooldown
    \/ wait("at_wait_cool", "at_heat")
    \/ wait("at_wait_settle", "rec_enter")
    \/ wait("at_wait_fan", "at_fan_step")
    \/ wait("at_wait_ri", "rec_enter")
    \/ wait_temp
    \/ autotune_heat
    \/ record
    \/ record_return
    \/ record_wait
    \/ record_tick(CalEnv)
    \/ record_entry
    \/ autotune_recorded
    \/ estimate
    \/ autotune_fan_start
    \/ autotune_fan_step
    \/ temp_model_autotune_end

SpecCal == Init /\ [][NextCal]_vars

\* ------------------------------------------------------------- table lookup
Increasing(tt) == \A i \in 1..(Len(tt) - 1) : tt[i][1] < tt[i+1][1]
Monotonic(tt) ==
    \/ \A i \in 1..(Len(tt) - 1) : tt[i][2] <= tt[i+1][2]
    \/ \A i \in 1..(Len(tt) - 1) : tt[i][2] >= tt[i+1][2]

InitLut ==
    /\ Boot(TRUE)
    /\ cs = StockGains
    /\ lut_table \in { tt \in LutTables : Increasing(tt) /\ Monotonic(tt) }
    /\ lut_raw \in { r \in LutRaws \X LutRaws : r[1] <= r[2] }
    /\ lut_celsius = <<>>
    /\ est = NoEstimate /\ itp = NoInterpolation

\* analog2temp on the two raw counts, with the table as heater_ttbl_map[0].
analog2temp_calls ==
    /\ lut_celsius = <<>>
    /\ lut_celsius' = <<TableLookup(lut_table, lut_raw[1]), TableLookup(lut_table, lut_raw[2])>>
    /\ UNCHANGED <<pwm_frame, soft_pwm, heater_0_pin, pwm_vars, lut_table, lut_raw,
                   cal_fn_vars>>

NextLut == analog2temp_calls

SpecLut == InitLut /\ [][NextLut]_vars

\* --------------------------------------------------------------- regulators
iState_sum_min == 0
iState_sum_max == PID_INTEGRAL_DRIVE_MAX \div cs.Ki
temp_iState_min_bed == 0
temp_iState_max_bed == PID_INTEGRAL_DRIVE_MAX \div cs.bedKi

\* (Kd * (pid_input - dState_last)) * K2 + (PID_K1 * dTerm), K2 = 1 - PID_K1
FilteredD(kd, input, last, d) ==
    C_div(kd * (input - last) * (100 - PID_K1_PERCENT) + PID_K1_PERCENT * d, 100)

\* The arithmetic of pid_heater(0, current, target) (PIDTEMP, neither
\* PID_OPENLOOP nor PonM): the output after its clamp and the statics after.
pid_heater_regulator_unclamped(current, target) ==
    IF target = 0
    THEN [pid_output |-> 0, iState_sum |-> iState_sum, dTerm |-> dTerm,
          dState_last |-> current]
    ELSE LET pid_error == target - current
             i0 == IF pid_reset THEN 0 ELSE iState_sum
             d0 == IF pid_reset THEN 0 ELSE dTerm
             i1 == constrain(i0 + pid_error, iState_sum_min, iState_sum_max)
             d1 == FilteredD(cs.Kd, current, dState_last, d0)
             out == cs.Kp * pid_error + cs.Ki * i1 - d1
         IN [pid_output |-> IF out < 0 THEN 0 ELSE out,
             iState_sum |-> IF (out > PID_MAX /\ pid_error > 0)
                               \/ (out <= PID_MAX /\ out < 0 /\ pid_error < 0)
                            THEN i1 - pid_error ELSE i1,
             dTerm |-> d1,
             dState_last |-> current]

pid_heater_regulator(current, target) ==
    IF target = 0
    THEN [pid_output |-> 0, iState_sum |-> iState_sum, dTerm |-> dTerm,
          dState_last |-> current]
    ELSE LET pid_error == target - current
             i0 == IF pid_reset THEN 0 ELSE iState_sum
             d0 == IF pid_reset THEN 0 ELSE dTerm
             i1 == constrain(i0 + pid_error, iState_sum_min, iState_sum_max)
             d1 == FilteredD(cs.Kd, current, dState_last, d0)
             out == cs.Kp * pid_error + cs.Ki * i1 - d1
         IN [pid_output |-> IF out > PID_MAX THEN PID_MAX ELSE IF out < 0 THEN 0 ELSE out,
             iState_sum |-> IF (out > PID_MAX /\ pid_error > 0)
                               \/ (out <= PID_MAX /\ out < 0 /\ pid_error < 0)
                            THEN i1 - pid_error ELSE i1,
             dTerm |-> d1,
             dState_last |-> current]

\* The arithmetic of pid_bed(current, target) (PIDTEMPBED): it runs for a
\* target of 0 as well.
pid_bed_regulator(current, target) ==
    LET pid_error_bed == target - current
        i1 == constrain(temp_iState_bed + pid_error_bed, temp_iState_min_bed,
                        temp_iState_max_bed)
        d1 == FilteredD(cs.bedKd, current, temp_dState_bed, dTerm_bed)
        out == cs.bedKp * pid_error_bed + cs.bedKi * i1 - d1
    IN [pid_output |-> IF out > MAX_BED_POWER THEN MAX_BED_POWER
                       ELSE IF out < 0 THEN 0 ELSE out,
        temp_iState_bed |-> IF (out > MAX_BED_POWER /\ pid_error_bed > 0)
                               \/ (out <= MAX_BED_POWER /\ out < 0 /\ pid_error_bed < 0)
                            THEN i1 - pid_error_bed ELSE i1,
        dTerm_bed |-> d1,
        temp_dState_bed |-> current]

\* The statics after temp_mgr_pid() ran the two regulators.
RegulatorsRan(h, b) ==
    /\ iState_sum' = h.iState_sum
    /\ dTerm' = h.dTerm
    /\ dState_last' = h.dState_last
    /\ temp_iState_bed' = b.temp_iState_bed
    /\ dTerm_bed' = b.dTerm_bed
    /\ temp_dState_bed' = b.temp_dState_bed

\* temp_mgr_isr on a sample inside all limits on which no detector raises:
\* temperatures converted, temp_meas_ready set, and, unless PID_autotune has
\* the heater, temp_mgr_pid().
temp_mgr_isr_quiet ==
    \E sample \in PidSamples :
      LET current == sample[1]
          current_bed == sample[2]
          h == pid_heater_regulator(current, target_temperature_isr)
          b == pid_bed_regulator(current_bed, target_temperature_bed_isr)
          s0 == [IsrState EXCEPT !.current_temperature_isr = current,
                                 !.current_temperature_bed_isr = current_bed,
                                 !.temp_meas_ready = TRUE]
      IN /\ temp_error_state = NoError
         /\ IF pid_tuning_finished
            THEN /\ Commit(temp_mgr_pid(s0, h.pid_output, b.pid_output))
                 /\ RegulatorsRan(h, b)
            ELSE /\ Commit(s0)
                 /\ UNCHANGED pid_state_vars
         /\ UNCHANGED <<adc_vars, fg_temp_vars, fanSpeed, temp_model_enabled, beeper_vars,
                        temp_mgr_interrupt, pc, handler_vars, routine_vars, mh_return,
                        pwm_vars, cs, lut_vars, cal_fn_vars>>

\* ----------------------------------------------------------------- soft PWM
\* soft_pwm_core, standard modulation, hotend 0: the statics and the pin after
\* one run on the duty register's value.
soft_pwm_core_inclusive(count, latched, pin, register) ==
    LET l == IF count = 0 THEN register ELSE latched
        p == IF count = 0 THEN l > 0 ELSE pin
    IN [pwm_count |-> (count + 2 ^ SOFT_PWM_SCALE) % PWM_PERIOD,
        soft_pwm_0 |-> l,
        heater_0_pin |-> IF l <= count THEN FALSE ELSE p]

soft_pwm_core_short_period(count, latched, pin, register) ==
    LET l == IF count = 0 THEN register ELSE latched
        p == IF count = 0 THEN l > 0 ELSE pin
    IN [pwm_count |-> (count + 2 ^ SOFT_PWM_SCALE) % (PWM_PERIOD \div 2),
        soft_pwm_0 |-> l,
        heater_0_pin |-> IF l < count THEN FALSE ELSE p]

\* A variant that compares the counter against the duty register itself.
soft_pwm_core_unlatched(count, latched, pin, register) ==
    LET l == IF count = 0 THEN register ELSE latched
        p == IF count = 0 THEN l > 0 ELSE pin
    IN [pwm_count |-> (count + 2 ^ SOFT_PWM_SCALE) % PWM_PERIOD,
        soft_pwm_0 |-> l,
        heater_0_pin |-> IF register < count THEN FALSE ELSE p]

soft_pwm_core(count, latched, pin, register) ==
    LET l == IF count = 0 THEN register ELSE latched
        p == IF count = 0 THEN l > 0 ELSE pin
    IN [pwm_count |-> (count + 2 ^ SOFT_PWM_SCALE) % PWM_PERIOD,
        soft_pwm_0 |-> l,
        heater_0_pin |-> IF l < count THEN FALSE ELSE p]

\* The soft-PWM interrupt: soft_pwm_isr runs soft_pwm_core.  A window of
\* PWM_PERIOD ticks may begin with any tick.
TIMER0_COMPB_vect ==
    LET r == soft_pwm_core(pwm_count, soft_pwm_0, heater_0_pin, soft_pwm)
        high == IF r.heater_0_pin THEN 1 ELSE 0
        settled == pwm_settled \/ pwm_count = 0
    IN /\ pwm_pc = "idle"
       /\ pwm_count' = r.pwm_count
       /\ soft_pwm_0' = r.soft_pwm_0
       /\ heater_0_pin' = r.heater_0_pin
       /\ pwm_settled' = settled
       /\ \E begin \in BOOLEAN :
            IF begin
            THEN win_ticks' = 1 /\ win_highs' = high /\ win_settled' = settled
            ELSE IF win_ticks \in 1..(PWM_PERIOD - 1)
            THEN /\ win_ticks' = win_ticks + 1
                 /\ win_highs' = win_highs + high
                 /\ UNCHANGED win_settled
            ELSE UNCHANGED <<win_ticks, win_highs, win_settled>>
       /\ UNCHANGED <<pwm_frame, soft_pwm, lut_vars, cal_fn_vars, pwm_pc, heaters_off>>

\* A store of another value to soft_pwm[0] (pid_heater, PID_autotune); the
\* window under watch ends.
soft_pwm_store ==
    /\ \E d \in PwmDuties : d # soft_pwm /\ soft_pwm' = d
    /\ pwm_settled' = FALSE
    /\ win_ticks' = 0 /\ win_highs' = 0 /\ win_settled' = FALSE
    /\ heaters_off' = FALSE
    /\ UNCHANGED <<pwm_frame, heater_0_pin, pwm_count, soft_pwm_0, lut_vars, cal_fn_vars, pwm_pc>>

\* disable_heater() between two soft-PWM ticks.
disable_heater_call ==
    /\ soft_pwm # 0 \/ soft_pwm_bed # 0
    /\ Commit(disable_heater(IsrState))
    /\ RegulatorsRan(pid_heater_regulator(current_temperature_isr, 0),
                     pid_bed_regulator(current_temperature_bed_isr, 0))
    /\ pwm_settled' = FALSE
    /\ win_ticks' = 0 /\ win_highs' = 0 /\ win_settled' = FALSE
    /\ heaters_off' = TRUE
    /\ UNCHANGED <<adc_vars, fg_temp_vars, fanSpeed, temp_model_enabled, beeper_vars,
                   temp_mgr_interrupt, pc, handler_vars, routine_vars, mh_return,
                   pwm_count, soft_pwm_0, cs, lut_vars, cal_fn_vars, pwm_pc>>

\* The same interrupt in the steps between which the manager tick can run
\* (soft_pwm_isr runs with interrupts enabled): the latch at counter == 0,
\* the pin write that follows it, and the comparison with the count.  No
\* window is under watch.
spc_latch ==
    /\ pwm_pc = "idle"
    /\ IF pwm_count = 0
       THEN soft_pwm_0' = soft_pwm /\ pwm_pc' = "write"
       ELSE UNCHANGED soft_pwm_0 /\ pwm_pc' = "compare"
    /\ UNCHANGED <<pwm_frame, soft_pwm, heater_0_pin, pwm_count, pwm_settled, win_ticks,
                   win_highs, win_settled, heaters_off, lut_vars, cal_fn_vars>>

spc_write ==
    /\ pwm_pc = "write"
    /\ heater_0_pin' = (soft_pwm_0 > 0)
    /\ pwm_pc' = "compare"
    /\ UNCHANGED <<pwm_frame, soft_pwm, pwm_count, soft_pwm_0, pwm_settled, win_ticks,
                   win_highs, win_settled, heaters_off, lut_vars, cal_fn_vars>>

spc_compare ==
    /\ pwm_pc = "compare"
    /\ heater_0_pin' = (IF soft_pwm_0 < pwm_count THEN FALSE ELSE heater_0_pin)
    /\ pwm_count' = (pwm_count + 2 ^ SOFT_PWM_SCALE) % PWM_PERIOD
    /\ pwm_settled' = (pwm_settled \/ pwm_count = 0)
    /\ pwm_pc' = "idle"
    /\ UNCHANGED <<pwm_frame, soft_pwm, soft_pwm_0, win_ticks, win_highs, win_settled,
                   heaters_off, lut_vars, cal_fn_vars>>

NextPinRace ==
    \/ spc_latch
    \/ spc_write
    \/ spc_compare
    \/ soft_pwm_store
    \/ disable_heater_call

SpecPinRace == Init /\ [][NextPinRace]_vars

NextPwm ==
    \/ TIMER0_COMPB_vect
    \/ soft_pwm_store
    \/ disable_heater_call

SpecPwm == Init /\ [][NextPwm]_vars

\* PID_autotune against the tick with the clock followed: up to ten minutes
\* pass in one iteration of its loop.
ClockEnv ==
    [samples |-> {<<96, 96, 64>>, <<64, 96, 64>>}, due |-> {FALSE},
     model |-> {<<FALSE, FALSE>>}, pid |-> {PID_MAX}, counters |-> FALSE, lag |-> FALSE, runaway |-> FALSE,
     report |-> BOOLEAN, clock |-> {0, 1, 2}, timeout |-> {}]

NextClock ==
    \/ adc_callback(ClockEnv)
    \/ TIMER5_COMPA_vect(ClockEnv)
    \/ PID_autotune
    \/ pa_init
    \/ pa_sample
    \/ pa_relay
    \/ pa_check(ClockEnv)

SpecClock == Init /\ [][NextClock]_vars

\* The regulators with their arithmetic, against the foreground and
\* PID_autotune.
PidEnv == [report |-> {FALSE}, clock |-> {0}, timeout |-> BOOLEAN]

InitPid == Boot(TRUE) /\ cs \in PidGains /\ NoLookup

NextPid ==
    \/ temp_mgr_isr_quiet
    \/ setTargetHotend
    \/ setTargetBed(BedTargets)
    \/ manage_heater
    \/ handle_warning
    \/ mh_error
    \/ disable_heater_call
    \/ PID_autotune
    \/ pa_init
    \/ pa_sample
    \/ pa_relay
    \/ pa_check(PidEnv)

SpecPid == InitPid /\ [][NextPid]_vars

\* ------------------------------------------------------------------- claims
ManagerTick == adc_values_ready /\ ~adc_values_ready'
ForegroundStep == pc' # pc
NonModelTypes == {TypeMax, TypeMin, TypePreheat, TypeRunaway}
RaisedTypes == {t \in TypeMax..TypeModel : raised_since_clear[t] # NotRaised}
HighestPriority(types) == CHOOSE t \in types : \A u \in types : t <= u

InAutotune == pc \in {"pa_init", "pa_sample", "pa_relay", "pa_check"}
WaitLoops == {"at_cooldown", "at_wait_cool", "at_wait_settle", "at_wait_fan", "at_wait_ri",
              "at_wait_temp"}

\* C1: whenever an error is latched, the hotend and the bed duty registers
\* are 0.
C1_DutyZeroWhileErrorLatched ==
    temp_error_state.error => (soft_pwm = 0 /\ soft_pwm_bed = 0)

\* PID_autotune, started with an error latched, has written its initial duty.
C1_Witness ==
    /\ temp_error_state.error
    /\ pc = "pa_sample"
    /\ pid_cycle = 0
    /\ pa_input = 0
    /\ soft_pwm = PID_MAX \div 2

\* C2: a manager tick that finds the hotend raw count at or beyond the
\* max-raw threshold ends with an error latched, of type Max, and with both
\* heater duty registers at 0.
C2_MaxTempLatchedWithinTick ==
    [][(ManagerTick /\ current_temperature_raw <= maxttemp_raw)
         => /\ temp_error_state'.error
            /\ temp_error_state'.type = TypeMax
            /\ soft_pwm' = 0
            /\ soft_pwm_bed' = 0]_vars

\* The tick has just run on an over-temperature sample while the handler,
\* having read type Model from an earlier error, is still under way.
C2_Witness ==
    /\ ~adc_values_ready
    /\ temp_meas_ready
    /\ current_temperature_raw <= maxttemp_raw
    /\ pc = "hte_assert"
    /\ h_type = TypeModel
    /\ temp_error_state.type = TypeMax

\* C3: while an error is latched the recorded type is the highest-priority
\* type raised since the error word was last clear, and the recorded source
\* and index are those of the first raise of that type.
C3_HighestPriorityRecorded ==
    temp_error_state.error =>
        /\ RaisedTypes # {}
        /\ temp_error_state.type = HighestPriority(RaisedTypes)
        /\ <<temp_error_state.source, temp_error_state.index>>
               = raised_since_clear[temp_error_state.type]

\* A max-temp error first raised by the bed stays recorded for the bed after
\* lower-priority raises (min, model) and a later hotend max.
C3_Witness ==
    /\ temp_error_state.error
    /\ temp_error_state.type = TypeMax
    /\ temp_error_state.source = SrcBed
    /\ current_temperature_raw <= maxttemp_raw
    /\ ~adc_values_ready
    /\ tick_raised
    /\ raised_since_clear[TypeMin] # NotRaised
    /\ raised_since_clear[TypeModel] # NotRaised

\* C4: once an error of a type other than Model is recorded, the error flag
\* is never reset.
C4_NonModelErrorNeverCleared ==
    [][(temp_error_state.error /\ temp_error_state.type \in NonModelTypes)
         => temp_error_state'.error]_vars

\* The handler has read type Model and asserted false, and a tick has since
\* raised a max-temp error.
C4_Witness ==
    /\ pc = "hte_act"
    /\ h_type = TypeModel
    /\ ~h_assert
    /\ temp_error_state.error
    /\ temp_error_state.assert
    /\ temp_error_state.type = TypeMax
    /\ current_temperature_raw <= maxttemp_raw

C6_RecoveryValuesCapturedOnce ==
    [][ManagerTick =>
         /\ (~temp_error_state.error /\ temp_error_state'.error)
              => /\ saved_bed_temperature' = target_temperature_bed
                 /\ saved_extruder_temperature' = target_temperature
                 /\ saved_fan_speed' = fanSpeed
         /\ temp_error_state.error
              => UNCHANGED <<saved_bed_temperature, saved_extruder_temperature,
                             saved_fan_speed>>
         /\ tick_raised'
              => /\ target_temperature' = 0 /\ target_temperature_bed' = 0
                 /\ target_temperature_isr' = 0 /\ target_temperature_bed_isr' = 0]_vars

\* A hotend preheat or runaway error has just been latched and the captured
\* hotend target is not what the hotend target was.
C6_Witness ==
    /\ temp_error_state.error
    /\ temp_error_state.type \in {TypePreheat, TypeRunaway}
    /\ temp_error_state.source = SrcHotend
    /\ tick_raised
    /\ temp_runaway_target[1] = 210
    /\ saved_extruder_temperature = 0
    /\ saved_fan_speed = 255
    /\ saved_bed_temperature = 60

\* C7: in a manage_heater run that no tick interrupts, a latched Model error
\* is handled, and cleared altogether when its asserted flag is false, left
\* as it is when the flag is true.
C7_ModelErrorClearedWhenDeasserted ==
    [][(ForegroundStep /\ ~temp_meas_ready /\ temp_error_state.error
        /\ temp_error_state.type = TypeModel)
         => /\ pc = "mh_error" => pc' = "hte_type"
            /\ pc = "hte_type" => pc' = "hte_assert"
            /\ pc = "hte_assert" => pc' = "hte_act" /\ h_assert' = temp_error_state.assert
            /\ pc = "hte_act" =>
                  temp_error_state' =
                      IF temp_error_state.assert THEN temp_error_state ELSE NoError]_vars

\* The handler, uninterrupted, has read type Model and asserted false from an
\* error that the last tick did not raise, and is about to clear it.
C7_Witness ==
    /\ pc = "hte_act"
    /\ ~temp_meas_ready
    /\ h_type = TypeModel
    /\ ~h_assert
    /\ temp_error_state.error
    /\ temp_error_state.type = TypeModel
    /\ ~temp_error_state.assert

\* C8 as stated: after a tick, a latched error of type Max, Min, Preheat or
\* Runaway is asserted.
C8_NonModelStaysAsserted ==
    [][(ManagerTick /\ temp_error_state'.error
        /\ temp_error_state'.type \in NonModelTypes)
         => temp_error_state'.assert]_vars

\* C8 amended: after a tick the asserted flag tells whether a detector raised
\* in that tick, whatever the type; and the error flag is reset only by the
\* handler that has read type Model and asserted false.
C8_AssertedIffRaisedInTick ==
    [][/\ ManagerTick => (temp_error_state'.assert <=> tick_raised')
       /\ (temp_error_state.error /\ ~temp_error_state'.error)
            => (pc = "hte_act" /\ h_type = TypeModel /\ ~h_assert)]_vars

\* A max-temp error is latched and the last tick, on a normal sample, did not
\* raise: the foreground sees it present and not asserted.
C8_Witness ==
    /\ temp_error_state.error
    /\ temp_error_state.type = TypeMax
    /\ ~temp_error_state.assert
    /\ ~tick_raised
    /\ ~adc_values_ready
    /\ pc = "hte_source"

\* C9: with an error latched, a step of PID_autotune writes no duty other than
\* 0, does not switch the relay, and the loop iteration under way ends in a
\* return.
C9_AutotuneStopsOnError ==
    [][(ForegroundStep /\ InAutotune /\ temp_error_state.error)
         => /\ soft_pwm' # soft_pwm => soft_pwm' = 0
            /\ pc' # "idle" => pa_heating' = pa_heating
            /\ pc = "pa_check" => pc' = "idle"]_vars

\* An error was latched while the relay was low; PID_autotune has since
\* switched the relay high and written a non-zero duty.
C9_Witness ==
    /\ temp_error_state.error
    /\ pc = "pa_check"
    /\ pa_heating
    /\ pid_cycle > 0
    /\ soft_pwm > 0
    /\ target_temperature = 0

\* C10: with an error latched, a step of the calibration leaves the waiting
\* loop it is in, starts no estimation, and if it is autotune's return the
\* result is failure; temp_model_autotune ends with the hotend target at 0.
C10_CalibrationAbortsOnError ==
    [][ForegroundStep =>
         /\ temp_error_state.error =>
              /\ pc \in WaitLoops => pc' \notin {pc, "mh_warning"}
              /\ pc' # "cal_estimating"
              /\ (pc # "tma_end" /\ pc' = "tma_end") => cal_err'
         /\ (pc = "tma_end" /\ pc' = "idle") => target_temperature' = 0]_vars

\* The last estimation is under way and an error has been latched since it
\* began.
C10_Witness ==
    /\ pc = "cal_estimating"
    /\ cal_phase = "Rfan"
    /\ cal_ri - TEMP_MODEL_CAL_R_STEP <= 0
    /\ temp_error_state.error
    /\ target_temperature = 0

PwmTick == pwm_count' # pwm_count
WindowWithin(d, highs) == (127 * highs - PWM_PERIOD * d) \in (-PWM_PERIOD)..PWM_PERIOD

\* C11 as stated: after every soft-PWM tick run with the duty register at 0
\* the heater pin is low; with the register at 127 it is high after every
\* tick from the first counter==0 tick on.
C11_PinFollowsHeldDuty ==
    [][PwmTick =>
         /\ soft_pwm = 0 => ~heater_0_pin'
         /\ (soft_pwm = 127 /\ pwm_settled') => heater_0_pin']_vars

\* C11 amended: for 0 as for 127, from the first counter==0 tick after the
\* register's last write on (from boot on for a register never written), the
\* pin is low after every tick with the register at 0 and high after every
\* tick with the register at 127.
C11_PinFollowsLatchedDuty ==
    [][PwmTick =>
         /\ (soft_pwm = 0 /\ pwm_settled') => ~heater_0_pin'
         /\ (soft_pwm = 127 /\ pwm_settled') => heater_0_pin']_vars

\* The register went from 127 to 0 in mid-cycle and the next cycle has begun:
\* the pin, high until then, is low.
C11_Witness ==
    /\ soft_pwm = 0
    /\ soft_pwm_0 = 0
    /\ pwm_settled
    /\ ~heater_0_pin
    /\ pwm_count = 1
    /\ win_ticks = 64
    /\ win_highs = 63

\* C12 as stated: a window of 128 consecutive ticks with the register constant
\* at d has its fraction of high ticks within 1/127 of d/127.
C12_WindowAverage ==
    win_ticks = PWM_PERIOD => WindowWithin(soft_pwm, win_highs)

\* C12 amended: the same for every window that begins with or after the first
\* counter==0 tick that follows the register's last write.
C12_LatchedWindowAverage ==
    (win_ticks = PWM_PERIOD /\ win_settled) => WindowWithin(soft_pwm, win_highs)

\* A window begun in mid-cycle, a full cycle after the register was set to 64,
\* has ended with 65 high ticks.
C12_Witness ==
    /\ win_ticks = PWM_PERIOD
    /\ win_settled
    /\ soft_pwm = 64
    /\ win_highs = 65
    /\ pwm_count = 32

\* C13 as stated: after every step of the hotend or the bed regulator the
\* integral sum lies within its limits [iMin, iMax].
C13_IntegralWithinLimits ==
    /\ iState_sum \in iState_sum_min..iState_sum_max
    /\ temp_iState_bed \in temp_iState_min_bed..temp_iState_max_bed

\* The hotend regulator has run on a cold sample with a target set, saturated
\* high, and left an integral sum below iMin.
C13_Witness ==
    /\ iState_sum < iState_sum_min
    /\ soft_pwm = PID_MAX \div 2
    /\ target_temperature_isr # 0
    /\ ~pid_reset

C15_LookupMonotonic ==
    lut_celsius # <<>> =>
        LET n == Len(lut_table)
            lo == lut_table[1][1]
            hi == lut_table[n][1]
        IN /\ (lo <= lut_raw[1] /\ lut_raw[2] <= hi) =>
                IF lut_table[1][2] <= lut_table[n][2]
                THEN lut_celsius[1] <= lut_celsius[2]
                ELSE lut_celsius[1] >= lut_celsius[2]
           /\ \A k \in 1..2 : lut_raw[k] >= hi => lut_celsius[k] = lut_table[n][2]

\* Two raw counts on different segments of a falling table, the second beyond
\* the last key, have been converted.
C15_Witness ==
    /\ lut_celsius = <<7, 0>>
    /\ lut_table = << <<0, 9>>, <<4, 1>>, <<6, 0>> >>
    /\ lut_raw = <<1, 7>>

HotendRunawayCheckLatched ==
    /\ temp_error_state.error
    /\ temp_error_state.source = SrcHotend
    /\ temp_error_state.type \in {TypePreheat, TypeRunaway}

\* C17 as stated: with the temperature held at ambient, far below a hotend
\* target of 210, the error the hotend's runaway check latches has type
\* Runaway.
C17_AmbientLatchesRunaway ==
    HotendRunawayCheckLatched => temp_error_state.type = TypeRunaway

\* C17 amended: with the temperature held at ambient the hotend's check never
\* leaves the preheat phase, and the error it latches has type Preheat.
C17_AmbientLatchesPreheat ==
    /\ temp_runaway_status[1] # TempRunaway_ACTIVE
    /\ HotendRunawayCheckLatched => temp_error_state.type = TypePreheat

\* The hotend's check has latched its error while heating towards 210 at
\* ambient temperature.
C17_Witness ==
    /\ HotendRunawayCheckLatched
    /\ temp_error_state.assert
    /\ temp_runaway_status[1] = TempRunaway_PREHEAT
    /\ temp_runaway_target[1] = 210
    /\ current_temperature_isr = 25
    /\ target_temperature = 0

\* ------------------------------------------------- the stalled-heating test
\* A hot bed: the bed thermistor reads 106 or 108 degC at every cycle, the
\* bed's target is set once, to 100 (below the bed) or to 120 (above it), the
\* 2-second checks are due at every tick and the stalled-heating test follows
\* its counters.
PreheatEnv ==
    [samples |-> {<<96, 41, 64>>, <<96, 40, 64>>}, due |-> {TRUE},
     model |-> {<<FALSE, FALSE>>}, pid |-> {PID_MAX}, counters |-> TRUE, lag |-> FALSE, runaway |-> FALSE]

PreheatBedTargets == {100, 120}

\* The ticks are followed until __preheat_errors has passed its limit.
MaxPreheatErrors == 4
preheat_target ==
    /\ target_temperature_bed = 0
    /\ setTargetBed(PreheatBedTargets)

preheat_tick ==
    /\ preheat_errors[0] < MaxPreheatErrors
    /\ TIMER5_COMPA_vect(PreheatEnv)

NextPreheat ==
    \/ adc_callback(PreheatEnv)
    \/ preheat_tick
    \/ preheat_target
    \/ manage_heater
    \/ handle_warning
    \/ mh_error
    \/ hte_type
    \/ hte_source
    \/ hte_act

SpecPreheat == Init /\ [][NextPreheat]_vars

\* An error of type Preheat with source bed is latched.
BedPreheatLatched ==
    /\ temp_error_state.error
    /\ temp_error_state.source = SrcBed
    /\ temp_error_state.type = TypePreheat

PreemptEnv ==
    [samples |-> {<<96, 96, 64>>, <<32, 96, 64>>, <<112, 96, 64>>}, due |-> {FALSE},
     model |-> {<<FALSE, FALSE>>}, pid |-> {PID_MAX}, counters |-> FALSE, lag |-> FALSE, runaway |-> FALSE]

NextPreempt ==
    \/ adc_callback(PreemptEnv)
    \/ TIMER5_COMPA_vect(PreemptEnv)
    \/ TIMER5_COMPA_vect_preempted(PreemptEnv)
    \/ setTargetHotend
    \/ manage_heater
    \/ handle_warning
    \/ mh_error
    \/ hte_type
    \/ hte_source
    \/ hte_assert
    \/ hte_act

SpecPreempt == Init /\ [][NextPreempt]_vars

\* C19: within one tick the raw counts that the limit guard examines and the
\* raw counts that were converted to temperatures at the start of the tick
\* belong to the same ADC cycle, for all channels.
C19_RawAndConvertedSameCycle == ~raw_cycle_torn

\* A tick converted a hotend count of room temperature while its limit guard
\* examined the next cycle's count and latched MaxTemp for the hotend.
C19_Witness ==
    /\ raw_cycle_torn
    /\ temp_error_state.error
    /\ temp_error_state.type = TypeMax
    /\ temp_error_state.source = SrcHotend
    /\ current_temperature_isr = 25
    /\ current_temperature_raw <= maxttemp_raw

\* --------------------------------------------------- manage_heater's rate
\* The body of manage_heater begins: updateTemperatures runs and the warning
\* and error handlers follow.
ManageHeaterBody == pc # "mh_warning" /\ pc' = "mh_warning"

\* C20: between two consecutive manager ticks the body of manage_heater runs
\* at most once, and it runs again only after a further tick has completed:
\* the body runs only with temp_meas_ready set and clears it in the same
\* step, and only a tick sets it again.
C20_BodyOncePerTick ==
    [][/\ ManageHeaterBody => (temp_meas_ready /\ ~temp_meas_ready')
       /\ (~temp_meas_ready /\ temp_meas_ready') => ManagerTick]_vars

\* The body has run on the last tick's temperatures, the next ADC cycle has
\* completed, and no further tick has run: manage_heater returns at once.
C20_Witness ==
    /\ pc = "idle"
    /\ ~temp_meas_ready
    /\ adc_values_ready
    /\ current_temperature = 25
    /\ current_temperature = current_temperature_isr

\* ---------------------------------------------------- the observer's settings
\* temp_model::setup on the switch and the parameters given.
temp_model_setup_unchecked(enabled, d) ==
    [enabled |-> enabled, data |-> [d EXCEPT !.uninitialized = TRUE]]

temp_model_setup(enabled, d) ==
    [enabled |-> enabled /\ calibrated(d), data |-> [d EXCEPT !.uninitialized = TRUE]]

\* temp_model_reset_settings (warn_beep is not followed).
temp_model_reset_settings_values(d) ==
    [enabled |-> FALSE,
     data |-> [d EXCEPT !.P = TEMP_MODEL_P, !.C = NaN,
                        !.R = [i \in 0..(TEMP_MODEL_R_SIZE - 1) |-> NaN],
                        !.Ta_corr = TEMP_MODEL_Ta_corr, !.warn = TEMP_MODEL_W,
                        !.err = TEMP_MODEL_E]]

\* Arguments of M310 and contents the parameter store can have.
ParamArgs == {NaN, 0, 2}
ResistanceIndexes == {0, TEMP_MODEL_R_SIZE - 1, TEMP_MODEL_R_SIZE}
StoredResistances ==
    { [i \in 0..(TEMP_MODEL_R_SIZE - 1) |-> 1],
      [i \in 0..(TEMP_MODEL_R_SIZE - 1) |-> NaN],
      [i \in 0..(TEMP_MODEL_R_SIZE - 1) |-> IF i = 3 THEN -1 ELSE 1] }
StoredSettings ==
    [enable : BOOLEAN, P : {NaN, 0, TEMP_MODEL_P}, C : {NaN, 0, 1}, R : StoredResistances,
     Ta_corr : {NaN, TEMP_MODEL_Ta_corr}, warn : {NaN, TEMP_MODEL_W},
     err : {NaN, TEMP_MODEL_E}]

SettingsWritten(m) ==
    /\ temp_model_enabled' = m.enabled
    /\ data' = m.data
    /\ UNCHANGED settings_frame

temp_model_set_enabled ==
    /\ pc = "idle"
    /\ \E enabled \in BOOLEAN : SettingsWritten(temp_model_setup(enabled, data))

temp_model_set_params ==
    /\ pc = "idle"
    /\ \E C \in ParamArgs, P \in ParamArgs, Ta_corr \in ParamArgs, warn \in ParamArgs,
          err \in ParamArgs :
         LET d1 == [data EXCEPT !.C = IF ~isnan(C) /\ Gt(C, 0) THEN C ELSE @,
                                !.P = IF ~isnan(P) /\ Gt(P, 0) THEN P ELSE @,
                                !.Ta_corr = IF ~isnan(Ta_corr) THEN Ta_corr ELSE @,
                                !.err = IF ~isnan(err) /\ Gt(err, 0) THEN err ELSE @,
                                !.warn = IF ~isnan(warn) /\ Gt(warn, 0) THEN warn ELSE @]
             d2 == IF Gt(d1.warn, d1.err) THEN [d1 EXCEPT !.warn = d1.err] ELSE d1
         IN SettingsWritten(temp_model_setup(temp_model_enabled, d2))

\* if(index >= TEMP_MODEL_R_SIZE || R <= 0) return;
temp_model_set_resistance ==
    /\ pc = "idle"
    /\ \E index \in ResistanceIndexes, R \in ParamArgs :
         IF index >= TEMP_MODEL_R_SIZE \/ Ge(0, R)
         THEN UNCHANGED vars
         ELSE SettingsWritten(temp_model_setup(temp_model_enabled,
                                               [data EXCEPT !.R[index] = R]))

temp_model_reset_settings ==
    /\ pc = "idle"
    /\ SettingsWritten(temp_model_reset_settings_values(data))

temp_model_load_settings ==
    /\ pc = "idle"
    /\ \E st \in StoredSettings :
         LET d == [data EXCEPT !.P = st.P, !.C = st.C, !.R = st.R, !.Ta_corr = st.Ta_corr,
                               !.warn = st.warn, !.err = st.err]
             m == IF ~calibrated(d) THEN temp_model_reset_settings_values(d)
                  ELSE [enabled |-> st.enable, data |-> d]
         IN SettingsWritten(temp_model_setup(m.enabled, m.data))

\* The settings' operations from the power-on state, before
\* temp_model_load_settings has run.
InitSettings == Boot(FALSE) /\ cs = StockGains /\ NoLookup

NextSettings ==
    \/ temp_model_load_settings
    \/ temp_model_reset_settings
    \/ temp_model_set_params
    \/ temp_model_set_resistance
    \/ temp_model_set_enabled

SpecSettings == InitSettings /\ [][NextSettings]_vars

\* The observer's lag buffer in the tick: ADC cycles at room temperature, no
\* check due, the observer content, and the foreground switching the observer
\* on and off.
LagEnv ==
    [samples |-> {<<96, 96, 64>>}, due |-> {FALSE}, model |-> {<<FALSE, FALSE>>},
     pid |-> {PID_MAX}, counters |-> FALSE, lag |-> TRUE, runaway |-> FALSE]

NextLag ==
    \/ adc_callback(LagEnv)
    \/ TIMER5_COMPA_vect(LagEnv)
    \/ temp_model_set_enabled
    \/ manage_heater
    \/ handle_warning
    \/ mh_error

SpecLag == Init /\ [][NextLag]_vars

LagIndexes == 0..(TEMP_MODEL_LAG_SIZE - 1)

\* C21: the lag buffer keeps its length TEMP_MODEL_LAG_SIZE and dT_lag_idx
\* stays in 0..TEMP_MODEL_LAG_SIZE-1; a tick of the enabled observer advances
\* the index by one modulo the length, and a reset (first tick after a setup)
\* sets it to 0 before its seeding step, so that the tick leaves it at 2
\* modulo the length.
C21_LagIndexInRange ==
    /\ DOMAIN data.dT_lag_buf = LagIndexes
    /\ data.dT_lag_idx \in LagIndexes
    /\ [][/\ DOMAIN data'.dT_lag_buf = LagIndexes
          /\ data'.dT_lag_idx \in LagIndexes
          /\ (ManagerTick /\ temp_model_enabled) =>
                 data'.dT_lag_idx = IF data.uninitialized THEN 2 % TEMP_MODEL_LAG_SIZE
                                    ELSE (data.dT_lag_idx + 1) % TEMP_MODEL_LAG_SIZE
          /\ ~(ManagerTick /\ temp_model_enabled) =>
                 data'.dT_lag_idx = data.dT_lag_idx]_vars

\* The index has wrapped around to 0 after the steps have written every entry
\* of the buffer.
C21_Witness ==
    /\ data.dT_lag_idx = 0
    /\ ~data.uninitialized
    /\ \A i \in LagIndexes : data.dT_lag_buf[i] = 1

\* The parameters are valid: P and C above 0, every R[i] at least 0, and
\* Ta_corr, warn and err numbers.
ValidParameters(d) ==
    /\ Gt(d.P, 0)
    /\ Gt(d.C, 0)
    /\ \A i \in 0..(TEMP_MODEL_R_SIZE - 1) : Ge(d.R[i], 0)
    /\ ~isnan(d.Ta_corr) /\ ~isnan(d.warn) /\ ~isnan(d.err)

\* C22: calibrated() returns true only for parameters with P > 0, C > 0, every
\* R[i] >= 0 and Ta_corr, warn and err not NaN (the parameters that
\* temp_model::setup has passed to it are under watch).
C22_CalibratedOnlyIfValid ==
    (data.uninitialized /\ calibrated(data)) => ValidParameters(data)

\* temp_model_load_settings or temp_model_set_enabled found calibrated() true
\* for parameters with Ta_corr = NaN and enabled the observer.
C22_Witness ==
    /\ temp_model_enabled
    /\ isnan(data.Ta_corr)
    /\ Gt(data.P, 0) /\ Gt(data.C, 0)

\* C23: after any sequence of the settings' operations the observer is enabled
\* only if its parameters are valid.
C23_EnabledOnlyIfValid == temp_model_enabled => ValidParameters(data)

\* The observer is enabled only with parameters that calibrated() accepts.
EnabledOnlyIfCalibrated == temp_model_enabled => calibrated(data)

\* The observer is enabled with P = 0.
C23_Witness ==
    /\ temp_model_enabled
    /\ data.P = 0
    /\ data.uninitialized

\* ------------------------------------------------------- the error's index
\* C24: the index recorded in a latched error, which is the index
\* set_temp_error used to read the hotend target it saved, lies in
\* 0..EXTRUDERS-1.
C24_ErrorIndexInRange ==
    temp_error_state.error => temp_error_state.index \in 0..(EXTRUDERS - 1)

\* The hotend's runaway check has latched its error with its heater id,
\* EXTRUDERS, as index, and the word read past target_temperature[] was saved
\* in place of the hotend's target of 0.
C24_Witness ==
    /\ temp_error_state.error
    /\ temp_error_state.source = SrcHotend
    /\ temp_error_state.type \in {TypePreheat, TypeRunaway}
    /\ temp_error_state.index = EXTRUDERS
    /\ saved_extruder_temperature = 210
    /\ temp_runaway_target[1] = 210

\* ------------------------------------------------------------ PID_autotune echo
\* PID_autotune with two and three cycles asked for, its serial lines followed,
\* against a tick that samples below and above the tuning temperature.
AutotuneCycleArgs == {2, 3}

CyclesEnv ==
    [samples |-> {<<96, 96, 64>>, <<64, 96, 64>>}, due |-> {FALSE},
     model |-> {<<FALSE, FALSE>>}, pid |-> {PID_MAX}, counters |-> FALSE, lag |-> FALSE, runaway |-> FALSE,
     report |-> {FALSE}, clock |-> {0}, timeout |-> BOOLEAN]

PID_autotune_echoed == \E ncycles \in AutotuneCycleArgs : PID_autotune_ncycles(ncycles, TRUE)

NextCycles ==
    \/ adc_callback(CyclesEnv)
    \/ TIMER5_COMPA_vect(CyclesEnv)
    \/ PID_autotune_echoed
    \/ pa_init
    \/ pa_sample
    \/ pa_relay
    \/ pa_check(CyclesEnv)

SpecCycles == Init /\ [][NextCycles]_vars

\* C25: every PID_autotune run that ends with the 'finished' message for a
\* requested cycle count n >= 2 has emitted at least n bias/d/min/max lines and
\* has reported the classic Kp, Ki, Kd at least once.
C25_FinishedRunReportedGains ==
    (pa_serial.finished /\ pid_number_of_cycles >= 2)
        => (pa_serial.bias >= pid_number_of_cycles /\ pa_serial.classic >= 1)

\* A run of two cycles has finished with its two bias lines and no Kp, Ki, Kd.
C25_Witness ==
    /\ pa_serial.finished
    /\ pid_number_of_cycles = 2
    /\ pa_serial.bias = 2
    /\ pa_serial.classic = 0

\* What the code does: n bias lines, and Kp, Ki, Kd on the lines of cycles
\* three and later only.
FinishedRunEcho ==
    pa_serial.finished
        => (pa_serial.bias = pid_number_of_cycles
            /\ pa_serial.classic = pid_number_of_cycles - 2)
FinishedThreeCycles == pa_serial.finished /\ pid_number_of_cycles = 3 /\ pa_serial.classic = 1
\* --------------------------------------------------------- anomaly beeper
\* The handlers against a tick whose observer raises warnings and errors.
AnomalyEnv ==
    [samples |-> {<<96, 96, 64>>}, due |-> {FALSE}, model |-> BOOLEAN \X BOOLEAN,
     pid |-> {PID_MAX}, counters |-> FALSE, lag |-> FALSE, runaway |-> FALSE]

NextAnomaly ==
    \/ adc_callback(AnomalyEnv)
    \/ TIMER5_COMPA_vect(AnomalyEnv)
    \/ manage_heater
    \/ handle_warning
    \/ mh_error
    \/ hte_type
    \/ hte_assert
    \/ hte_act

SpecAnomaly == Init /\ [][NextAnomaly]_vars

\* A run of temp_model::handle_warning, and one of handle_temp_error on a
\* Model error.
WarningRun == pc = "mh_warning" /\ pc' = "mh_error" /\ warning_state.warning
ModelErrorRun == pc = "hte_act" /\ pc' # "hte_act" /\ h_type = TypeModel

\* C26: while a model anomaly (warning or Model error) stays asserted over
\* successive handler runs the beeper toggles on each run after the first;
\* a run that finds it no longer asserted drives the beeper low and clears
\* the warning.
C26_BeeperTogglesWhileAsserted ==
    [][/\ (WarningRun /\ warning_state.assert /\ asserted_runs.warning > 0)
            => beeper' # beeper
       /\ (WarningRun /\ ~warning_state.assert)
            => (~beeper' /\ ~warning_state'.warning)
       /\ (ModelErrorRun /\ h_assert /\ asserted_runs.model > 0)
            => beeper' # beeper
       /\ (ModelErrorRun /\ ~h_assert) => ~beeper']_vars

\* Two successive runs of handle_warning have found the warning asserted and
\* the beeper is as the first run left it.
C26_Witness ==
    /\ pc = "mh_error"
    /\ asserted_runs.warning = 2
    /\ warning_state.warning
    /\ warning_state.assert
    /\ beeper

\* What the code does: every run on an asserted anomaly drives the beeper
\* high, every other run drives it low and clears the warning or the error.
BeeperFollowsAssert ==
    [][/\ (WarningRun /\ warning_state.assert) => (beeper' /\ first')
       /\ (WarningRun /\ ~warning_state.assert)
            => (~beeper' /\ ~warning_state'.warning)
       /\ (ModelErrorRun /\ h_assert) => beeper'
       /\ (ModelErrorRun /\ ~h_assert) => (~beeper' /\ temp_error_state' = NoError)]_vars
ModelErrorBeeps == asserted_runs.model = 2 /\ beeper
\* ------------------------------------------------------- runaway status
\* The tick against targets that come and go, with samples at room
\* temperature and inside the hysteresis of both targets; the check is due at
\* every tick and its counters' verdicts are free.
RunawayEnv ==
    [samples |-> {<<96, 96, 64>>, <<64, 64, 64>>}, due |-> {TRUE},
     model |-> {<<FALSE, FALSE>>}, pid |-> {PID_MAX}, counters |-> FALSE, lag |-> FALSE, runaway |-> FALSE]

NextRunaway ==
    \/ adc_callback(RunawayEnv)
    \/ TIMER5_COMPA_vect(RunawayEnv)
    \/ setTargetHotend
    \/ setTargetBed(BedTargets)
    \/ manage_heater
    \/ handle_warning
    \/ mh_error
    \/ hte_type
    \/ hte_source
    \/ hte_act

SpecRunaway == Init /\ [][NextRunaway]_vars

\* The heaters of temp_runaway_check by _heater_id: the temperature each is
\* checked with, its hysteresis and its error source.
HeaterIds == {0, 1}
HeaterCurrent(id) == IF id = 0 THEN current_temperature_bed_isr ELSE current_temperature_isr
HeaterHysteresis(id) ==
    IF id = 0 THEN TEMP_RUNAWAY_BED_HYSTERESIS ELSE TEMP_RUNAWAY_EXTRUDER_HYSTERESIS
HeaterSource(id) == IF id = 0 THEN SrcBed ELSE SrcHotend
\* This step records a Preheat or Runaway error of heater id.
RunawayFaultRecorded(id) ==
    /\ temp_error_state' # temp_error_state
    /\ temp_error_state'.type \in {TypePreheat, TypeRunaway}
    /\ temp_error_state'.source = HeaterSource(id)
    /\ ~(temp_error_state.error /\ temp_error_state.type = temp_error_state'.type
         /\ temp_error_state.source = temp_error_state'.source)

\* C27: the status of a heater's runaway check goes to Preheat when the
\* target differs from the tracked one and is above 0, to Inactive when it
\* differs and is 0, from Preheat to Active when the temperature is above
\* target - hysteresis; Active is left only by a target change, and no
\* Preheat or Runaway fault is raised for an Inactive heater.
C27_RunawayStatusTransitions ==
    [][\A id \in HeaterIds :
         LET st == temp_runaway_status[id]
             tt == temp_runaway_target[id]
             reached == HeaterCurrent(id)' > temp_runaway_target'[id] - HeaterHysteresis(id)
         IN /\ (temp_runaway_target'[id] # tt /\ temp_runaway_target'[id] > 0)
                  => temp_runaway_status'[id] =
                         (IF reached THEN TempRunaway_ACTIVE ELSE TempRunaway_PREHEAT)
            /\ (temp_runaway_target'[id] # tt /\ temp_runaway_target'[id] = 0)
                  => temp_runaway_status'[id] = TempRunaway_INACTIVE
            /\ (ManagerTick /\ temp_runaway_target'[id] = tt /\ st = TempRunaway_PREHEAT)
                  => temp_runaway_status'[id] =
                         (IF reached THEN TempRunaway_ACTIVE ELSE TempRunaway_PREHEAT)
            /\ (temp_runaway_target'[id] = tt /\ st # TempRunaway_PREHEAT)
                  => temp_runaway_status'[id] = st
            /\ RunawayFaultRecorded(id)
                  => (st # TempRunaway_INACTIVE \/ temp_runaway_target'[id] # tt)
                     /\ temp_runaway_status'[id] # TempRunaway_INACTIVE]_vars

\* The bed's check has gone from Preheat to Active at its target while the
\* hotend's is in Preheat at its own.
C27_Witness ==
    /\ temp_runaway_status[0] = TempRunaway_ACTIVE
    /\ temp_runaway_target[0] = 60
    /\ temp_runaway_status[1] = TempRunaway_PREHEAT
    /\ temp_runaway_target[1] = 210
    /\ ~temp_error_state.error

\* Faults of both heaters and the return to Inactive happen.
NoBedFault == [][~RunawayFaultRecorded(0)]_vars
NoHotendFault == [][~RunawayFaultRecorded(1)]_vars
NeverBackToInactive ==
    [][\A id \in HeaterIds : temp_runaway_status[id] = TempRunaway_ACTIVE
                                => temp_runaway_status'[id] # TempRunaway_INACTIVE]_vars
\* ---------------------------------------------------- target change in preheat
\* The bed stalled at 106 degC under a target that is set and then changed
\* once, with all counters of its runaway check followed.
RetargetEnv ==
    [samples |-> {<<96, 41, 64>>}, due |-> {TRUE}, model |-> {<<FALSE, FALSE>>},
     pid |-> {PID_MAX}, counters |-> TRUE, lag |-> FALSE, runaway |-> TRUE]

FirstBedTargets == {100, 120}
SecondBedTarget == 125

retarget ==
    \/ target_temperature_bed = 0 /\ setTargetBed(FirstBedTargets)
    \/ target_temperature_bed \in FirstBedTargets /\ setTargetBed({SecondBedTarget})

retarget_tick ==
    /\ preheat_errors[0] < MaxPreheatErrors
    /\ TIMER5_COMPA_vect(RetargetEnv)

NextRetarget ==
    \/ adc_callback(RetargetEnv)
    \/ retarget_tick
    \/ retarget
    \/ manage_heater
    \/ handle_warning
    \/ mh_error
    \/ hte_type
    \/ hte_source
    \/ hte_act

SpecRetarget == Init /\ [][NextRetarget]_vars

\* C28: a sample that sees the target changed to a value above 0 enters
\* Preheat with the start temperature at the current temperature, the preheat
\* counter restarted (it counts this sample if the temperature is below the
\* target) and the error counters at 0.
C28_TargetChangeResetsCounters ==
    [][(temp_runaway_target'[0] # temp_runaway_target[0] /\ temp_runaway_target'[0] > 0)
         => /\ temp_runaway_status'[0] \in {TempRunaway_PREHEAT, TempRunaway_ACTIVE}
            /\ preheat_start'[0] = current_temperature_bed_isr'
            /\ preheat_counter'[0] <= 1
            /\ preheat_errors'[0] = 0
            /\ temp_runaway_error_counter'[0] = 0]_vars

\* One sample after the change of the target from 120 to 125, three stalled
\* windows counted under 120 are still counted.
C28_Witness ==
    /\ temp_runaway_target[0] = SecondBedTarget
    /\ temp_runaway_status[0] = TempRunaway_PREHEAT
    /\ preheat_counter[0] = 1
    /\ preheat_errors[0] = 3
    /\ ~temp_error_state.error

\* What the code does at a target change to a value above 0: status, start
\* and preheat counter as stated, __preheat_errors and
\* temp_runaway_error_counter as they were unless this sample itself wrote
\* them.
TargetChangeKeepsErrors ==
    [][(temp_runaway_target'[0] # temp_runaway_target[0] /\ temp_runaway_target'[0] > 0)
         => /\ temp_runaway_status'[0] \in {TempRunaway_PREHEAT, TempRunaway_ACTIVE}
            /\ preheat_start'[0] = current_temperature_bed_isr'
            /\ preheat_counter'[0] <= 1
            /\ preheat_errors'[0] = preheat_errors[0]
            /\ temp_runaway_error_counter'[0] \in {0, temp_runaway_error_counter[0]}]_vars
\* The error counter of the active phase is above 0 after a target change.
ErrorCounterCarried ==
    /\ temp_runaway_target[0] = SecondBedTarget
    /\ temp_runaway_status[0] = TempRunaway_PREHEAT
    /\ preheat_counter[0] = 1
    /\ temp_runaway_error_counter[0] > 0
\* ------------------------------------------------------- stalled heating
\* One heater at a time heated towards a target it does not reach: the hotend
\* at 25 or 30 degC towards 210, or the bed at 106 or 108 degC towards 120,
\* with the counters of the runaway check followed until __preheat_errors has
\* passed its limit.
StallEnv ==
    [samples |-> {<<96, 41, 64>>, <<95, 40, 64>>}, due |-> {TRUE},
     model |-> {<<FALSE, FALSE>>}, pid |-> {PID_MAX}, counters |-> TRUE, lag |-> FALSE,
     runaway |-> TRUE]

StallBedTarget == 120
MaxHotendPreheatErrors == 6

stall_target ==
    /\ target_temperature = 0
    /\ target_temperature_bed = 0
    /\ (setTargetHotend \/ setTargetBed({StallBedTarget}))

stall_tick ==
    /\ preheat_errors[0] < MaxPreheatErrors
    /\ preheat_errors[1] < MaxHotendPreheatErrors
    /\ TIMER5_COMPA_vect(StallEnv)

NextStall ==
    \/ adc_callback(StallEnv)
    \/ stall_tick
    \/ stall_target
    \/ manage_heater
    \/ handle_warning
    \/ mh_error
    \/ hte_type
    \/ hte_source
    \/ hte_act

SpecStall == Init /\ [][NextStall]_vars

\* A tick whose runaway check finds heater id in Preheat under an unchanged
\* target with the temperature below it, and such a tick that makes the
\* progress check.
PreheatSample(id) ==
    /\ ManagerTick
    /\ temp_runaway_target'[id] = temp_runaway_target[id]
    /\ temp_runaway_status[id] = TempRunaway_PREHEAT
    /\ HeaterCurrent(id)' < temp_runaway_target[id]
ProgressCheck(id) == PreheatSample(id) /\ preheat_counter'[id] = 0
\* Ten times the rise since the last check, and ten times the required one.
Rise10(id) == 10 * (HeaterCurrent(id)' - preheat_start[id])
Delta10(id) ==
    IF id # 0 THEN 20
    ELSE IF HeaterCurrent(id)' > 105 THEN 6 ELSE IF HeaterCurrent(id)' > 90 THEN 20 ELSE 30
PreheatFaultRaised(id) ==
    /\ ~temp_error_state.error
    /\ temp_error_state'.error
    /\ temp_error_state'.type = TypePreheat
    /\ temp_error_state'.source = HeaterSource(id)

\* C29: in Preheat with the temperature below the target the progress check
\* is made on every N-th sample (N = 16 for the bed, 8 for a hotend); a check
\* that finds the required rise resets the count of consecutive failures, one
\* that does not adds one to it; the Preheat fault is raised exactly when
\* that count exceeds 3 (bed) or 5 (hotend).
C29_ProgressCheckEveryNth ==
    [][\A id \in HeaterIds :
         LET N == IF id = 0 THEN 16 ELSE 8
             limit == IF id = 0 THEN 3 ELSE 5
         IN /\ PreheatSample(id) => (ProgressCheck(id) <=> preheat_counter[id] = N - 1)
            /\ (ProgressCheck(id) /\ Rise10(id) >= Delta10(id)) => preheat_errors'[id] = 0
            /\ (ProgressCheck(id) /\ Rise10(id) < Delta10(id))
                  => preheat_errors'[id] = preheat_errors[id] + 1
            /\ (PreheatSample(id) /\ ~ProgressCheck(id))
                  => preheat_errors'[id] = preheat_errors[id]
            /\ ~temp_error_state.error
                  => (PreheatFaultRaised(id)
                        <=> (ProgressCheck(id) /\ preheat_errors'[id] > limit))]_vars

\* The bed's first progress check has been made after sixteen samples were
\* counted and the seventeenth arrived; it found the bed stalled.
C29_Witness ==
    /\ temp_runaway_status[0] = TempRunaway_PREHEAT
    /\ temp_runaway_target[0] = StallBedTarget
    /\ preheat_counter[0] = 0
    /\ preheat_errors[0] = 1
    /\ ~temp_error_state.error

\* What the code does: the same with the check on every 17th (bed) or 9th
\* (hotend) sample.
ProgressCheckEveryNPlus1 ==
    [][\A id \in HeaterIds :
         LET N == IF id = 0 THEN 16 ELSE 8
             limit == IF id = 0 THEN 3 ELSE 5
         IN /\ PreheatSample(id) => (ProgressCheck(id) <=> preheat_counter[id] = N)
            /\ (ProgressCheck(id) /\ Rise10(id) >= Delta10(id)) => preheat_errors'[id] = 0
            /\ (ProgressCheck(id) /\ Rise10(id) < Delta10(id))
                  => preheat_errors'[id] = preheat_errors[id] + 1
            /\ (PreheatSample(id) /\ ~ProgressCheck(id))
                  => /\ preheat_errors'[id] = preheat_errors[id]
                     /\ preheat_counter'[id] = preheat_counter[id] + 1
            /\ ~temp_error_state.error
                  => (PreheatFaultRaised(id)
                        <=> (ProgressCheck(id) /\ preheat_errors'[id] > limit))]_vars
HotendPreheatRaised ==
    temp_error_state.error /\ temp_error_state.type = TypePreheat
    /\ temp_error_state.source = SrcHotend /\ preheat_errors[1] = 6
BedFailuresReset == [][~(preheat_errors[0] > 0 /\ preheat_errors'[0] = 0)]_vars
\* ------------------------------------------------------ runaway error counter
\* One heater at a time switched on and off, with temperatures below, inside
\* and above the band around its target and the regulator's output on or off;
\* temp_runaway_error_counter is followed, the verdict of the stalled-heating
\* test is free.
BandEnv ==
    [samples |-> {<<96, 96, 64>>, <<64, 64, 64>>, <<56, 61, 64>>}, due |-> {TRUE},
     model |-> {<<FALSE, FALSE>>}, pid |-> {0, PID_MAX}, counters |-> FALSE, lag |-> FALSE,
     runaway |-> TRUE]

band_target ==
    \/ target_temperature_bed = 0 /\ setTargetHotend
    \/ target_temperature = 0 /\ setTargetBed(BedTargets)

NextBand ==
    \/ adc_callback(BandEnv)
    \/ TIMER5_COMPA_vect(BandEnv)
    \/ band_target
    \/ manage_heater
    \/ handle_warning
    \/ mh_error
    \/ hte_type
    \/ hte_source
    \/ hte_act

SpecBand == Init /\ [][NextBand]_vars

\* The output a heater's check is called with, whether the temperature of
\* this sample is inside the band around the target the check sees, and
\* whether the sample finds the heater in Active as the sample before left it.
HeaterOutput(id) == IF id = 0 THEN soft_pwm_bed ELSE soft_pwm
InBand(id) ==
    /\ HeaterCurrent(id)' > temp_runaway_target'[id] - HeaterHysteresis(id)
    /\ HeaterCurrent(id)' < temp_runaway_target'[id] + HeaterHysteresis(id)
StillActive(id) ==
    /\ temp_runaway_status[id] = TempRunaway_ACTIVE
    /\ temp_runaway_target'[id] = temp_runaway_target[id]
RunawayFaultRaised(id) ==
    /\ ~temp_error_state.error
    /\ temp_error_state'.error
    /\ temp_error_state'.type = TypeRunaway
    /\ temp_error_state'.source = HeaterSource(id)

\* C30: a Runaway fault is raised only for a heater in Active, exactly at the
\* sample at which the number of consecutive samples with the output on and
\* the temperature outside the band, times 2, exceeds the configured timeout;
\* a sample with the output at 0 or the temperature inside the band resets
\* the count.
C30_RunawayAfterTimeout ==
    [][\A id \in HeaterIds :
         LET outside == ManagerTick /\ HeaterOutput(id) > 0 /\ ~InBand(id)
                        /\ temp_runaway_status'[id] = TempRunaway_ACTIVE
         IN /\ (ManagerTick /\ (HeaterOutput(id) = 0 \/ InBand(id)))
                  => temp_runaway_error_counter'[id] = 0
            /\ outside
                  => temp_runaway_error_counter'[id] =
                         (IF StillActive(id) THEN temp_runaway_error_counter[id] ELSE 0) + 1
            /\ ~outside
                  => temp_runaway_error_counter'[id] \in {0, temp_runaway_error_counter[id]}
            /\ ~temp_error_state.error
                  => (RunawayFaultRaised(id)
                        <=> (outside /\ temp_runaway_error_counter'[id] * 2
                                          > RunawayTimeout(id = 0)))]_vars

\* The bed's fourth consecutive sample outside the band with the output on
\* has raised Runaway.
C30_Witness ==
    /\ temp_error_state.error
    /\ temp_error_state.type = TypeRunaway
    /\ temp_error_state.source = SrcBed
    /\ temp_runaway_error_counter[0] = 4
    /\ temp_runaway_status[0] = TempRunaway_ACTIVE

HotendRunawayRaised ==
    /\ temp_error_state.error
    /\ temp_error_state.type = TypeRunaway
    /\ temp_error_state.source = SrcHotend
    /\ temp_runaway_error_counter[1] = 3
CountNeverReset ==
    [][\A id \in HeaterIds : temp_runaway_error_counter[id] > 1
                                => temp_runaway_error_counter'[id] # 0]_vars

\* ------------------------------------------------- delayed MINTEMP guard
\* Samples with the ambient count above OVERSAMPLENR * MINTEMP_MINAMBIENT_RAW
\* (the delayed logic of check_min_temp_raw) and one below it (the immediate
\* checks); hotend or bed exactly at the min-raw threshold, or both hot.
MinEnv ==
    [samples |-> {<<112, 96, 96>>, <<96, 112, 96>>, <<64, 64, 96>>, <<112, 96, 64>>},
     due |-> {FALSE}, model |-> {<<FALSE, FALSE>>}, pid |-> {PID_MAX}, counters |-> FALSE,
     lag |-> FALSE, runaway |-> FALSE]

min_target ==
    \/ setTargetHotend
    \/ setTargetBed(BedTargets)

NextMin ==
    \/ adc_callback(MinEnv)
    \/ TIMER5_COMPA_vect(MinEnv)
    \/ min_target
    \/ manage_heater
    \/ handle_warning
    \/ mh_error
    \/ hte_type
    \/ hte_source
    \/ hte_assert
    \/ hte_act

SpecMin == Init /\ [][NextMin]_vars

\* This step records the first Min error since the last clear, for `source`.
MinRaised(source) ==
    /\ raised_since_clear[TypeMin] = NotRaised
    /\ raised_since_clear'[TypeMin] = <<source, 0>>

\* What the tick of this step read: the heater's raw count is beyond its min
\* threshold, the heater is commanded above its minimum temperature, and its
\* delay timer has expired (in this tick or earlier: a timer that expired is
\* stopped) or its sensor was seen above min + hysteresis (in this tick or in
\* an earlier one since heating was commanded).
HotendRawBeyondMin == current_temperature_raw >= minttemp_raw
BedRawBeyondMin == current_temperature_bed_raw >= bed_minttemp_raw
HotendCommanded == target_temperature_isr > minttemp
BedCommanded == target_temperature_bed_isr > BED_MINTEMP
HotendDelayOver ==
    \/ ~oTimer4minTempHeater'
    \/ bCheckingOnHeater
    \/ current_temperature_isr' > minttemp + TEMP_HYSTERESIS
BedDelayOver ==
    \/ ~oTimer4minTempBed'
    \/ bCheckingOnBed
    \/ current_temperature_bed_isr' > BED_MINTEMP + TEMP_HYSTERESIS
AmbientLow == current_temperature_raw_ambient > OVERSAMPLENR * MINTEMP_MINAMBIENT_RAW

NoMinWhenIdleAndAmbientLow ==
    [][/\ MinRaised(SrcHotend) /\ AmbientLow => HotendCommanded
       /\ MinRaised(SrcBed) /\ AmbientLow => BedCommanded]_vars

BedMinDelayed ==
    /\ temp_error_state.error
    /\ temp_error_state.type = TypeMin
    /\ temp_error_state.source = SrcBed
    /\ current_temperature_raw_ambient > OVERSAMPLENR * MINTEMP_MINAMBIENT_RAW
    /\ bCheckingOnBed


\* ----------------------------------------------------- MINTEMP alert display
\* A Min error of the hotend or of the bed, and the temperature back above
\* min + hysteresis afterwards.
AlertEnv ==
    [samples |-> {<<112, 96, 64>>, <<96, 112, 64>>, <<96, 96, 64>>},
     due |-> {FALSE}, model |-> {<<FALSE, FALSE>>}, pid |-> {PID_MAX}, counters |-> FALSE,
     lag |-> FALSE, runaway |-> FALSE]

NextAlert ==
    \/ adc_callback(AlertEnv)
    \/ TIMER5_COMPA_vect(AlertEnv)
    \/ manage_heater
    \/ handle_warning
    \/ mh_error
    \/ hte_type
    \/ hte_source
    \/ hte_assert
    \/ hte_act_display

SpecAlert == Init /\ [][NextAlert]_vars

\* This step is a step of an automaton that has left Init, taken while one of
\* the automaton's two messages is the alert last sent; it sends the other one.
AlertShown == last_alert_sent_to_lcd \in {LCDALERT_MINTEMPFIXED, LCDALERT_PLEASERESTART}
AutomatonStep ==
    \/ alert_automaton_hotend.state # StInit
       /\ alert_automaton_hotend' # alert_automaton_hotend
    \/ alert_automaton_bed.state # StInit
       /\ alert_automaton_bed' # alert_automaton_bed
AlertSwitched == last_alert_sent_to_lcd' # last_alert_sent_to_lcd
NeverBackToInit ==
    /\ alert_automaton_hotend.state # StInit => alert_automaton_hotend'.state # StInit
    /\ alert_automaton_bed.state # StInit => alert_automaton_bed'.state # StInit

\* C32: an automaton that has left Init never returns to it, and its steps
\* switch between 'MINTEMP ... fixed' and 'Please restart' after every 5
\* steps: a step sends the other message exactly when the current one has
\* been sent by 5 steps in a row.
C32_AlertSwitchesEveryFive ==
    [][/\ NeverBackToInit
       /\ AutomatonStep /\ AlertShown => (AlertSwitched <=> shown_steps = 5)]_vars

\* The automaton never returns to Init.
AlertNeverBackToInit == [][NeverBackToInit]_vars

\* The cadence of the code: every state after Init lasts
\* ALERT_AUTOMATON_SPEED_DIV + 1 steps, the automaton moving on at the step
\* that finds repeat = 0 and counting repeat down by one at the others.
SteppedAtCadence(a, b) ==
    a.state # StInit /\ b # a =>
        IF a.repeat = 0
        THEN b.state # a.state /\ b.repeat = ALERT_AUTOMATON_SPEED_DIV
        ELSE b.state = a.state /\ b.repeat = a.repeat - 1
AlertStateLastsSixSteps ==
    [][/\ SteppedAtCadence(alert_automaton_hotend, alert_automaton_hotend')
       /\ SteppedAtCadence(alert_automaton_bed, alert_automaton_bed')]_vars

\* 'MINTEMP ... fixed' sent by a sixth step in a row.
C32_Witness ==
    /\ last_alert_sent_to_lcd = LCDALERT_MINTEMPFIXED
    /\ shown_steps = 6
    /\ alert_automaton_hotend.state # StInit

\* 'Please restart' on the display, sent by six steps in a row.
PleaseRestartShownSix ==
    /\ last_alert_sent_to_lcd = LCDALERT_PLEASERESTART
    /\ shown_steps = 6


\* ------------------------------------------------ PID reset on over-temperature
\* Hotend at room temperature or above maxtemp (raw 16: 320 degC), the ADC
\* cycle completing after the tick or inside it.
OvertempEnv ==
    [samples |-> {<<96, 96, 64>>, <<16, 96, 64>>}, due |-> {FALSE},
     model |-> {<<FALSE, FALSE>>}, pid |-> {PID_MAX}, counters |-> FALSE, lag |-> FALSE,
     runaway |-> FALSE]

NextOvertempOrdered ==
    \/ adc_callback(OvertempEnv)
    \/ TIMER5_COMPA_vect(OvertempEnv)
    \/ setTargetHotend
    \/ manage_heater
    \/ handle_warning
    \/ mh_error
    \/ hte_type
    \/ hte_source
    \/ hte_act

NextOvertemp ==
    \/ NextOvertempOrdered
    \/ TIMER5_COMPA_vect_preempted(OvertempEnv)

SpecOvertempOrdered == Init /\ [][NextOvertempOrdered]_vars
SpecOvertemp == Init /\ [][NextOvertemp]_vars

\* This step is a manager tick that ran temp_mgr_pid: the read of
\* adc_values_ready succeeded and PID_autotune does not hold the heater.  The
\* regulator saw the temperature and the target the tick leaves.
PidStep ==
    /\ temp_mgr_interrupt /\ adc_values_ready /\ pc' = pc
    /\ temp_meas_ready'
    /\ current_temperature_raw' # current_temperature_raw \/ ~adc_values_ready'
    /\ pid_tuning_finished'
HotendOff == soft_pwm' = 0 /\ pid_reset'

\* C33: a hotend PID step with target == 0 or with current >= maxtemp forces
\* the duty to 0 and sets the PID reset flag.
C33_OffStepArmsReset ==
    [][PidStep /\ (target_temperature_isr' = 0 \/ current_temperature_isr' >= maxttemp)
         => HotendOff]_vars

\* A PID step with target == 0 forces the duty to 0 and sets the flag; one
\* with current >= maxtemp forces the duty to 0.
ZeroTargetArmsReset ==
    [][PidStep /\ target_temperature_isr' = 0 => HotendOff]_vars
OvertempForcesDutyZero ==
    [][PidStep /\ current_temperature_isr' >= maxttemp => soft_pwm' = 0]_vars

\* The regulator ran above maxtemp on a non-zero target: duty 0, flag clear.
C33_Witness ==
    /\ current_temperature_isr >= maxttemp
    /\ target_temperature_isr # 0
    /\ pid_tuning_finished
    /\ soft_pwm = 0
    /\ ~pid_reset


\* The first regulator step on a non-zero target after the flag was set
\* integrates from 0 and filters the D term from 0: the sum it leaves is the
\* clamped error, or that less the error when the output saturates.
ResetStepStartsFromZero ==
    [][pid_reset /\ ~pid_reset' /\ pid_tuning_finished /\ target_temperature_isr # 0
         => LET pid_error == target_temperature_isr - current_temperature_isr'
                i1 == constrain(pid_error, iState_sum_min, iState_sum_max)
            IN /\ iState_sum' \in {i1, i1 - pid_error}
               /\ dTerm' = FilteredD(cs.Kd, current_temperature_isr', dState_last, 0)]_vars


\* ----------------------------------------------- conditional un-integration
\* A step that ran the regulators (a tick's temp_mgr_pid, or disable_heater's).
\* They saw the temperatures and the targets the step leaves.  For each
\* regulator: the sum it integrates from, the sum after the error was added
\* and clamped, and whether the unclamped output saturates on the error's side.
RegulatorStep == pid_state_vars' # pid_state_vars
HotendError == target_temperature_isr' - current_temperature_isr'
HotendSumBefore == IF pid_reset THEN 0 ELSE iState_sum
HotendSumAdded == constrain(HotendSumBefore + HotendError, iState_sum_min, iState_sum_max)
HotendOutput ==
    cs.Kp * HotendError + cs.Ki * HotendSumAdded
    - FilteredD(cs.Kd, current_temperature_isr', dState_last, IF pid_reset THEN 0 ELSE dTerm)
HotendSaturated ==
    /\ target_temperature_isr' # 0
    /\ \/ HotendOutput > PID_MAX /\ HotendError > 0
       \/ HotendOutput < 0 /\ HotendError < 0
BedError == target_temperature_bed_isr' - current_temperature_bed_isr'
BedSumAdded ==
    constrain(temp_iState_bed + BedError, temp_iState_min_bed, temp_iState_max_bed)
BedOutput ==
    cs.bedKp * BedError + cs.bedKi * BedSumAdded
    - FilteredD(cs.bedKd, current_temperature_bed_isr', temp_dState_bed, dTerm_bed)
BedSaturated ==
    \/ BedOutput > MAX_BED_POWER /\ BedError > 0
    \/ BedOutput < 0 /\ BedError < 0

\* C34: on a regulator step whose unclamped output saturates on the side of
\* the error, the integral sum at the end of the step equals its value before
\* the step (for the hotend: the value the step integrates from).
C34_SaturatedStepKeepsSum ==
    [][RegulatorStep =>
         /\ HotendSaturated => iState_sum' = HotendSumBefore
         /\ BedSaturated => temp_iState_bed' = temp_iState_bed]_vars

\* What the code does on such a step: the error is subtracted from the sum
\* as clamped, which is the sum before the step when the clamp left the
\* addition alone.
SaturatedStepSubtractsError ==
    [][RegulatorStep =>
         /\ HotendSaturated => iState_sum' = HotendSumAdded - HotendError
         /\ BedSaturated => temp_iState_bed' = BedSumAdded - BedError
         /\ HotendSaturated /\ HotendSumAdded = HotendSumBefore + HotendError
              => iState_sum' = HotendSumBefore
         /\ BedSaturated /\ BedSumAdded = temp_iState_bed + BedError
              => temp_iState_bed' = temp_iState_bed]_vars

\* The bed regulator ran with target 0 on a warm bed from a sum of 0 and left
\* the removed error in the sum.
C34_Witness ==
    /\ target_temperature_bed_isr = 0
    /\ current_temperature_bed_isr = 100
    /\ temp_dState_bed = 100
    /\ temp_iState_bed = 100
    /\ soft_pwm_bed = 0

\* A saturated step of the hotend regulator that the clamp left alone: the sum
\* is what it was.
SaturatedUnclampedStep ==
    /\ target_temperature_isr # 0
    /\ ~pid_reset
    /\ soft_pwm = PID_MAX \div 2
    /\ iState_sum \in 1..(iState_sum_max - 1)


\* ------------------------------------------------------- latched PWM duty
\* A store to the duty register alone (not disable_heater's, which writes the
\* pin as well).
DutyStore == soft_pwm' # soft_pwm /\ ~PwmTick /\ pwm_settled' = FALSE /\ pwm_count' = pwm_count
                /\ (heater_0_pin' = heater_0_pin \/ soft_pwm' # 0)

\* C35: the soft-PWM generator compares the counter against the duty latched
\* at the last counter == 0 tick.  At a tick with counter # 0 the latch is
\* kept and the pin goes low exactly when the latched duty is below the
\* counter, whatever the register holds; a store to the register changes
\* neither the latch nor the pin; at a tick with counter == 0 the register is
\* latched and the pin follows it.
C35_LatchedDutyGovernsPin ==
    [][/\ PwmTick /\ pwm_count # 0 =>
            /\ soft_pwm_0' = soft_pwm_0
            /\ heater_0_pin' = (heater_0_pin /\ ~(soft_pwm_0 < pwm_count))
       /\ DutyStore => soft_pwm_0' = soft_pwm_0 /\ heater_0_pin' = heater_0_pin
       /\ PwmTick /\ pwm_count = 0 =>
            /\ soft_pwm_0' = soft_pwm
            /\ heater_0_pin' = (soft_pwm > 0)]_vars

\* The register was set from 127 to 0 in the running cycle: half-way through
\* it the pin is still high on the latched 127.
C35_Witness ==
    /\ soft_pwm = 0
    /\ soft_pwm_0 = 127
    /\ pwm_count = 64
    /\ heater_0_pin
    /\ ~pwm_settled

\* The register was raised from 64 to 127 in the running cycle: the pin went
\* low at the tick the latched 64 asked for.
LowOnLatchedDuty ==
    /\ soft_pwm = 127
    /\ soft_pwm_0 = 64
    /\ pwm_count = 66
    /\ ~heater_0_pin


\* ------------------------------------------------- pin after disable_heater
\* C40: after disable_heater has run, the hotend pin is low after every
\* soft-PWM tick for as long as the duty register remains 0.
C40_PinLowAfterDisable ==
    (heaters_off /\ soft_pwm = 0 /\ pwm_pc = "idle") => ~heater_0_pin

\* disable_heater itself leaves the pin low.
DisableLeavesPinLow == [][heaters_off' /\ ~heaters_off => ~heater_0_pin']_vars

\* disable_heater ran between the latch of a non-zero duty at counter == 0 and
\* the pin write that follows it: the tick has ended with the pin high on a
\* register of 0.
C40_Witness ==
    /\ heaters_off
    /\ soft_pwm = 0
    /\ soft_pwm_0 = 64
    /\ pwm_pc = "idle"
    /\ pwm_count = 64
    /\ heater_0_pin

\* disable_heater ran in mid-cycle on a latched duty of 127, between two
\* soft-PWM interrupts: the pin is low.
DisabledInMidCycle ==
    /\ heaters_off
    /\ soft_pwm_0 = 127
    /\ pwm_count = 64
    /\ ~heater_0_pin


\* ------------------------------------------------------------ TempMgrGuard
\* record()'s guard is alive: from its construction to record's return,
\* manage_heater and the handlers it calls from record's loop included.
RecordGuardAlive ==
    \/ pc \in {"rec_loop", "rec_check"}
    \/ /\ pc \in {"mh_warning", "mh_error", "hte_type", "hte_source", "hte_assert", "hte_act"}
       /\ mh_return = "rec_loop"

\* C36: while record()'s TempMgrGuard is alive the manager interrupt is
\* disabled, the guards that updateTemperatures and handle_warning take
\* inside it notwithstanding; when it is destroyed the enable bit is what its
\* constructor found; a guarded block outside record leaves the bit as found.
C36_GuardRestoresInterrupt ==
    [][/\ RecordGuardAlive' => ~temp_mgr_interrupt'
       /\ RecordGuardAlive /\ ~RecordGuardAlive' => temp_mgr_interrupt' = cal_guard
       /\ ~RecordGuardAlive /\ ~RecordGuardAlive' => temp_mgr_interrupt' = temp_mgr_interrupt]_vars

\* Outside record() the interrupt is enabled between any two foreground steps.
EnabledOutsideRecord == ~RecordGuardAlive => temp_mgr_interrupt

\* record() has returned after manage_heater took its own guard inside the
\* loop: the interrupt is enabled again, as record()'s guard found it.
C36_Witness ==
    /\ pc = "at_recorded"
    /\ cal_samples = REC_BUFFER_SIZE
    /\ cal_guard
    /\ temp_mgr_interrupt
    /\ ~temp_meas_ready

\* manage_heater's handlers run inside record()'s loop with the interrupt
\* disabled.
NestedGuardInsideRecord ==
    /\ pc = "mh_error"
    /\ mh_return = "rec_loop"
    /\ ~temp_mgr_interrupt


\* ------------------------------------------------- one tick per ADC cycle
\* This step ran the tick's body (temp_mgr_isr).
BodyRan == runs_on_cycle' > runs_on_cycle

\* C37: the tick's body runs only on a completed ADC cycle that no run has
\* processed yet, and clears adc_values_ready; it runs from the timer
\* interrupt only while the interrupt is enabled and, while record()'s guard
\* is alive, only as record()'s own call.
C37_OneTickPerAdcCycle ==
    [][/\ BodyRan =>
            /\ adc_values_ready /\ ~adc_values_ready'
            /\ runs_on_cycle = 0
            /\ IF RecordGuardAlive
               THEN ~temp_mgr_interrupt /\ pc = "rec_loop" /\ pc' = "rec_check"
               ELSE temp_mgr_interrupt /\ pc' = pc
       /\ runs_on_cycle' <= 1]_vars

\* A run of the body is pending exactly for an unprocessed cycle.
FlagMeansUnprocessedCycle == adc_values_ready => runs_on_cycle = 0

\* record() has run the body on a completed cycle, with the interrupt disabled.
C37_Witness ==
    /\ pc = "rec_check"
    /\ runs_on_cycle = 1
    /\ ~adc_values_ready
    /\ ~temp_mgr_interrupt
    /\ temp_meas_ready

\* The timer interrupt has run the body on a completed cycle.
TickProcessedCycle ==
    /\ pc = "idle"
    /\ runs_on_cycle = 1
    /\ ~adc_values_ready
    /\ temp_mgr_interrupt
    /\ temp_meas_ready


\* ------------------------------------------------------------------ estimate
\* The floats of estimate are followed in thousandths; a float that may be
\* not-a-number is a record [nan, v].
GOLDEN_RATIO_THOUSANDTHS == 618
NotANumber == [nan |-> TRUE, v |-> 0]
Number(v) == [nan |-> FALSE, v |-> v]

\* The arguments of the calls under watch: [min, max] in thousandths, thr in
\* thousandths, the 16-bit max_itr, and what the recorded samples make of the
\* cost: the mean model error grows with the distance from the best value, or
\* is not a number (one sample: 0 / 0).
EstimateRanges == {<<5000, 20000>>, <<5000, 5000>>}
EstimateThresholds == {0, 10}
MaxItrArgs == {0, 3, 30, 256}
RecordedCosts == {[nan |-> FALSE, best |-> 12000], [nan |-> FALSE, best |-> 0],
                  [nan |-> TRUE, best |-> 0]}
EstimateOrig == 7000

\* cost_fn: *var = v, and the mean of |dT_err| over the recorded samples.
cost_fn(recorded, v) == IF recorded.nan THEN NotANumber ELSE Number(Abs(v - recorded.best))

\* update_section: d = GOLDEN_RATIO * (bounds[1] - bounds[0]);
\* points[0] = bounds[0] + d; points[1] = bounds[1] - d
update_section(bounds) ==
    LET d == C_div(GOLDEN_RATIO_THOUSANDTHS * (bounds[1] - bounds[0]), 1000)
    IN  [k \in 0..1 |-> IF k = 0 THEN bounds[0] + d ELSE bounds[1] - d]

\* a < b on floats: false when either is not a number.
FloatLess(a, b) == ~a.nan /\ ~b.nan /\ a.v < b.v

\* e = (1 - GOLDEN_RATIO) * fabsf((bounds[0] - bounds[1]) / x); with x == 0 the
\* quotient is infinite or not a number, and `e < thr` is false for both.
section_error(bounds, x) ==
    IF x = 0 THEN NotANumber
    ELSE Number(C_div((1000 - GOLDEN_RATIO_THOUSANDTHS) * Abs(bounds[0] - bounds[1]), Abs(x)))

\* estimate up to the loop: orig = *var; e = NAN; bounds = {min, max};
\* update_section(points, bounds); it = 0.
estimate_entry(range, thr, max_itr, recorded) ==
    LET bounds == [k \in 0..1 |-> range[k + 1]]
    IN  [pc |-> "loop", min |-> range[1], max |-> range[2], thr |-> thr,
         max_itr |-> max_itr, recorded |-> recorded, orig |-> EstimateOrig,
         var |-> EstimateOrig, e |-> NotANumber, bounds |-> bounds,
         points |-> update_section(bounds), it |-> 0, x |-> 0, returned |-> NotANumber,
         iterations |-> 0]

InitEstimate ==
    /\ Boot(TRUE)
    /\ cs = StockGains
    /\ lut_table = HEATER_0_TEMPTABLE /\ lut_raw = <<0, 0>> /\ lut_celsius = <<>>
    /\ itp = NoInterpolation
    /\ est \in { estimate_entry(range, thr, max_itr, recorded) :
                    range \in EstimateRanges, thr \in EstimateThresholds,
                    max_itr \in MaxItrArgs, recorded \in RecordedCosts }

\* Observation only: the loop's iterations, counted up to MaxIterationsCounted.
OneMoreIteration(n) == IF n < MaxIterationsCounted THEN n + 1 ELSE n

\* One iteration of for(uint8_t it = 0; it != max_itr; ++it): `it` is
\* promoted to int for the comparison and wraps at 256 when incremented.
estimate_iteration ==
    /\ est.pc = "loop"
    /\ est.it # est.max_itr
    /\ LET c1 == cost_fn(est.recorded, est.points[0])
           c2 == cost_fn(est.recorded, est.points[1])
           dir == IF FloatLess(c2, c1) THEN 1 ELSE 0
           bounds == [est.bounds EXCEPT ![dir] = est.points[1 - dir]]
           points == update_section(bounds)
           x == points[1 - dir]
           e == section_error(bounds, x)
           s == [est EXCEPT !.bounds = bounds, !.points = points, !.x = x, !.e = e,
                            !.var = est.points[1],
                            !.iterations = OneMoreIteration(@)]
       IN  est' = IF FloatLess(e, Number(est.thr))
                  THEN IF x = est.min \/ x = est.max
                       THEN [s EXCEPT !.pc = "not_converged"]
                       ELSE [s EXCEPT !.var = x, !.returned = e, !.pc = "returned"]
                  ELSE [s EXCEPT !.it = (@ + 1) % 256]
    /\ UNCHANGED <<pwm_frame, soft_pwm, heater_0_pin, pwm_vars, lut_vars, itp>>

\* After the loop, left by its condition or by break: *var = orig; return NAN.
estimate_not_converged ==
    /\ \/ est.pc = "loop" /\ est.it = est.max_itr
       \/ est.pc = "not_converged"
    /\ est' = [est EXCEPT !.var = est.orig, !.returned = NotANumber, !.pc = "returned"]
    /\ UNCHANGED <<pwm_frame, soft_pwm, heater_0_pin, pwm_vars, lut_vars, itp>>

NextEstimate == estimate_iteration \/ estimate_not_converged

SpecEstimate == InitEstimate /\ [][NextEstimate]_vars

\* The same, where a call that can take a step takes it.
SpecEstimateRuns == SpecEstimate /\ WF_vars(NextEstimate)

EstimateWatched == est.pc # "none"

\* The value estimate returns with: converged and the variable updated, or
\* NaN and the variable as on entry.
ReturnedConverged ==
    /\ ~est.returned.nan
    /\ est.returned.v < est.thr
    /\ est.var = est.x
    /\ est.x # est.min /\ est.x # est.max
ReturnedNaN == est.returned.nan /\ est.var = est.orig

\* C38: estimate runs at most max_itr iterations of its loop, for every
\* max_itr, and returns either converged with the variable updated or NaN
\* with the variable as on entry.
C38_AtMostMaxItrIterations ==
    EstimateWatched =>
        /\ est.iterations <= est.max_itr
        /\ est.pc = "returned" => ReturnedConverged \/ ReturnedNaN

\* The second half alone: what estimate returns with.
EstimateReturnsConvergedOrRestored ==
    EstimateWatched /\ est.pc = "returned" => ReturnedConverged \/ ReturnedNaN

\* With a max_itr the 8-bit loop variable can reach, the loop is bounded by it.
EightBitMaxItrBoundsLoop ==
    EstimateWatched /\ est.max_itr <= 255 => est.iterations <= est.max_itr

\* The loop variable wraps: it never reaches a max_itr above 255.
LoopVariableIsEightBit ==
    EstimateWatched => est.it \in 0..255 /\ (est.max_itr > 255 => est.it # est.max_itr)

\* Every call returns (the termination the claim states).
EstimateReturns == <>(est.pc = "returned")

\* Every call with max_itr <= 255 returns.
EstimateReturnsBelow256 == <>(est.pc = "returned" \/ est.max_itr > 255)

\* The loop has run more than max_itr iterations and goes on.
C38_Witness ==
    /\ est.pc = "loop"
    /\ est.max_itr = 256
    /\ est.min = 5000 /\ est.max = 20000
    /\ est.recorded = [nan |-> FALSE, best |-> 12000]
    /\ est.iterations = 257
    /\ est.it = 1

\* Returns reached: converged, given up at the boundary, out of iterations.
EstimateConverged == est.pc = "returned" /\ ReturnedConverged /\ est.iterations > 3
EstimateGaveUpAtBoundary ==
    est.pc = "returned" /\ ReturnedNaN /\ est.it # est.max_itr /\ est.iterations = 1
EstimateOutOfIterations ==
    est.pc = "returned" /\ ReturnedNaN /\ est.it = est.max_itr /\ est.iterations = 30


\* ------------------------------------------------- interpolation of R[]
\* The resistances estimate stores, in units that keep every product of the
\* interpolation exact: R[0] of the first pass, R[i] of the fan loop.
FirstPassResistances == {24, 36}
FanLoopResistances == {12, 24}

\* autotune after its first loop: R[0] estimated, the other entries not set
\* (NaN, as after a reset of the settings); the fan loop starts at
\* i = TEMP_MODEL_R_SIZE - 1.
InitInterpolation ==
    /\ Boot(TRUE)
    /\ cs = StockGains
    /\ lut_table = HEATER_0_TEMPTABLE /\ lut_raw = <<0, 0>> /\ lut_celsius = <<>>
    /\ est = NoEstimate
    /\ \E r0 \in FirstPassResistances :
         itp = [pc |-> "fan_loop", i |-> TEMP_MODEL_R_SIZE - 1, next |-> 0,
                R |-> [k \in 0..(TEMP_MODEL_R_SIZE - 1) |-> IF k = 0 THEN r0 ELSE NaN],
                estimated |-> {0}]

\* for(int8_t i = TEMP_MODEL_R_SIZE - 1; i > 0; i -= TEMP_MODEL_CAL_R_STEP):
\* a converged estimate stores R[i]; estimated (observation only) collects the
\* indexes stored.
fan_loop_estimate ==
    /\ itp.pc = "fan_loop"
    /\ itp.i > 0
    /\ \E r \in FanLoopResistances :
         itp' = [itp EXCEPT !.R[itp.i] = r, !.estimated = @ \cup {itp.i},
                            !.i = itp.i - TEMP_MODEL_CAL_R_STEP]
    /\ UNCHANGED <<pwm_frame, soft_pwm, heater_0_pin, pwm_vars, lut_vars, est>>

\* The fan loop ends; int8_t next = TEMP_MODEL_R_SIZE - 1; uint8_t i =
\* TEMP_MODEL_R_SIZE - 2.
fan_loop_done ==
    /\ itp.pc = "fan_loop"
    /\ itp.i <= 0
    /\ itp' = [itp EXCEPT !.pc = "interpolate", !.next = TEMP_MODEL_R_SIZE - 1,
                          !.i = TEMP_MODEL_R_SIZE - 2]
    /\ UNCHANGED <<pwm_frame, soft_pwm, heater_0_pin, pwm_vars, lut_vars, est>>

\* R[i] of one iteration that interpolates: prev = next - STEP, 0 when
\* negative; f = (float)(i - prev) / STEP; d = R[next] - R[prev];
\* R[prev] + d * f.
interpolated(R, i, next) ==
    LET below == next - TEMP_MODEL_CAL_R_STEP
        prev == IF below < 0 THEN 0 ELSE below
        d == R[next] - R[prev]
    IN  R[prev] + C_div(d * (i - prev), TEMP_MODEL_CAL_R_STEP)

\* One iteration of for(uint8_t i = TEMP_MODEL_R_SIZE - 2; i != 0; --i).
interpolate_step ==
    /\ itp.pc = "interpolate"
    /\ itp.i # 0
    /\ itp' = IF (TEMP_MODEL_R_SIZE - itp.i - 1) % TEMP_MODEL_CAL_R_STEP = 0
              THEN [itp EXCEPT !.next = itp.i, !.i = itp.i - 1]
              ELSE [itp EXCEPT !.R[itp.i] = interpolated(itp.R, itp.i, itp.next),
                               !.i = itp.i - 1]
    /\ UNCHANGED <<pwm_frame, soft_pwm, heater_0_pin, pwm_vars, lut_vars, est>>

\* return false
interpolate_done ==
    /\ itp.pc = "interpolate"
    /\ itp.i = 0
    /\ itp' = [itp EXCEPT !.pc = "returned"]
    /\ UNCHANGED <<pwm_frame, soft_pwm, heater_0_pin, pwm_vars, lut_vars, est>>

NextInterpolation ==
    \/ fan_loop_estimate
    \/ fan_loop_done
    \/ interpolate_step
    \/ interpolate_done

SpecInterpolation == InitInterpolation /\ [][NextInterpolation]_vars

AutotuneReturned == itp.pc = "returned"
ResistanceIndexesAll == 0..(TEMP_MODEL_R_SIZE - 1)
Interpolated == ResistanceIndexesAll \ itp.estimated

\* The estimated neighbours of an interpolated index.
PrevEstimated(i) == CHOOSE p \in itp.estimated :
                        p < i /\ \A q \in itp.estimated : q < i => q <= p
NextEstimated(i) == CHOOSE n \in itp.estimated :
                        n > i /\ \A q \in itp.estimated : q > i => q >= n

\* R[i] = R[prev] + (R[next] - R[prev]) * (i - prev) / (next - prev), without
\* the division.
OnLine(i, prev, next) ==
    (itp.R[i] - itp.R[prev]) * (next - prev) = (itp.R[next] - itp.R[prev]) * (i - prev)

NoneUnset == \A i \in ResistanceIndexesAll : itp.R[i] # NaN

\* C39: after a successful calibration every interpolated R[i] lies on the
\* straight line through its two neighbouring estimated entries, the segment
\* that adjoins R[0] included, and no R[i] is left unset.
C39_InterpolatedOnLine ==
    AutotuneReturned =>
        /\ \A i \in Interpolated : OnLine(i, PrevEstimated(i), NextEstimated(i))
        /\ NoneUnset

\* The segments between two entries of the fan loop are on the line, and no
\* entry is left unset.
UpperSegmentsOnLine ==
    AutotuneReturned =>
        /\ \A i \in Interpolated :
              PrevEstimated(i) # 0 => OnLine(i, PrevEstimated(i), NextEstimated(i))
        /\ NoneUnset

\* In the segment that adjoins R[0] the distance to R[0] is divided by
\* TEMP_MODEL_CAL_R_STEP, whatever the length of the segment.
LowestSegmentDividesByStep ==
    AutotuneReturned =>
        \A i \in Interpolated :
            PrevEstimated(i) = 0 =>
                (itp.R[i] - itp.R[0]) * TEMP_MODEL_CAL_R_STEP =
                    (itp.R[NextEstimated(i)] - itp.R[0]) * i

\* The entries the fan loop estimated.
EstimatedByFanLoop ==
    AutotuneReturned =>
        itp.estimated = {0} \cup { i \in ResistanceIndexesAll :
                                     i > 0 /\ (TEMP_MODEL_R_SIZE - 1 - i) % TEMP_MODEL_CAL_R_STEP = 0 }

\* AutotuneReturned with R[0] = 36 and R[3] = 12: R[2] is 24, off the line (20).
C39_Witness ==
    /\ AutotuneReturned
    /\ itp.R[0] = 36 /\ itp.R[3] = 12
    /\ itp.R[2] = 24 /\ itp.R[1] = 30
    /\ 3 \in itp.estimated /\ 2 \notin itp.estimated

\* AutotuneReturned with R[11] = 12 and R[15] = 24: R[12..14] on the line.
UpperSegmentInterpolated ==
    /\ AutotuneReturned
    /\ itp.R[11] = 12 /\ itp.R[15] = 24
    /\ itp.R[12] = 15 /\ itp.R[13] = 18 /\ itp.R[14] = 21

====
